---- MODULE Spec2Model ----
(***************************************************************************)
(* State-machine model of the LottieCard playback controller of            *)
(* src/Hexagons/app.js.  The file holds three revisions of the controller: *)
(*   "hexagons"  lines    1 ..  438  (continuous / loop / freeze / playOnce)*)
(*   "second"    lines  439 ..  953  (playOnce / playAndHold / loop, theme) *)
(*   "fixed"     lines  954 .. 1414  (same, frame callback bound once)      *)
(* One card is modelled in full: its controller fields, the handle of the   *)
(* external playback engine it drives, the timeline it paints, and the      *)
(* events that reach it (hover, frame, completion, load, theme change).     *)
(* The specifications share the card:                                       *)
(*   Spec             the card of a well-formed configuration entry         *)
(*   FairSpec         Spec with an engine that keeps rendering              *)
(*   AlternatingSpec  Spec with hover events that come in turn              *)
(*   ReloadSpec       Spec with the events of a superseded engine handle    *)
(*   ConfigSpec       the constructor applied to any configuration entry    *)
(*   AssemblySpec     the grid assembly with constructors that may fail     *)
(*   GridSpec         the grid assembly constructing the cards one by one,  *)
(*                    and the card next to the first receiving its events   *)
(*                                                                          *)
(* The playback engine (lottie) is not part of the repository.  It is       *)
(* modelled from the engine contract of the specification (section 6):      *)
(* seek/play/pause set the handle's frame and paused flag, a frame event is *)
(* emitted per rendered frame while playing, a completion event once the    *)
(* final frame is reached, and listeners are registered and removed by      *)
(* callback reference (one registration per reference, as the source        *)
(* comment at line 1235 states).                                            *)
(*                                                                          *)
(* CSS class toggling and DOM look-ups are presentation and are left out;   *)
(* the timeline is kept as the values the bars and labels are computed from.*)
(***************************************************************************)
EXTENDS Integers, Sequences, FiniteSets, TLC

VARIABLES
    rev,              \* which revision of the controller this card runs
    animationData,    \* this.animationData: the card's configuration entry
    grid,             \* the grid assembly: which cards it has constructed
    sibling,          \* the controller of the next card of the grid
    animationType,    \* this.animationType
    loopStartFrame,   \* this.loopStartFrame
    loopEndFrame,     \* this.loopEndFrame
    freezeFrame,      \* this.freezeFrame (hexagons revision)
    totalFrames,      \* this.totalFrames
    isHovering,       \* this.isHovering
    isOutroLocked,    \* this.isOutroLocked
    isFrozen,         \* this.isFrozen (hexagons revision)
    clipFrames,       \* frame count of the clip file the card plays
    lottieAnimation,  \* this.lottieAnimation: the current engine handle
    previous,         \* the handle that the last reload superseded
    nextBind,         \* identity of the next function `onEnterFrame.bind(this)` creates
    ui,               \* the timeline as painted by updateTimelineUI / resetTimeline
    calls,            \* engine calls issued by the handlers of the last event
    paints,           \* updateTimelineUI calls made by the handlers of the last event
    last              \* the last event delivered, with the state it was delivered in

vars == <<rev, animationData, grid, sibling,
          animationType, loopStartFrame, loopEndFrame, freezeFrame,
          clipFrames, totalFrames, isHovering, isOutroLocked, isFrozen,
          lottieAnimation, previous, nextBind, ui, calls, paints, last>>

-----------------------------------------------------------------------------
(* Bounds of the model *)

\* frame count of the longest clip the engine loads (handle.totalFrames)
MaxFrame == 5

\* largest number of frames the engine advances between two frame events
MaxStep == 2

\* largest number of distinct functions `onEnterFrame.bind(this)` may create
MaxBinds == 3

\* number of sections of the grid, and of cards in each section
NumSections == 2

CardsPerSection == 2

\* frame count of the clips of a grid of two cards
GridFrames == 1

\* largest number of functions `onEnterFrame.bind(this)` may create for each
\* card of a grid of two
GridBinds == 1

-----------------------------------------------------------------------------
(* Configuration *)

Revisions == {"hexagons", "second", "fixed"}

\* the playback kinds a revision's configuration declares
AnimationTypes(r) ==
    IF r = "hexagons" THEN {"continuous", "loop", "freeze", "playOnce"}
                      ELSE {"playOnce", "playAndHold", "loop"}

\* loop bounds of the configuration: 0 <= start < end <= frame count
LoopFrames == {lf \in (0..MaxFrame) \X (0..MaxFrame) : lf[1] < lf[2]}

\* freeze points of the configuration
FreezeFrames == 0..MaxFrame

\* frame counts of the clip files: a Loop clip holds its loop bounds, any other
\* clip may also be empty
ClipFrames(type) == IF type = "loop" THEN {MaxFrame} ELSE {0, MaxFrame}

\* frame counts of the clip file of an entry of any kind
AnyClipFrames == {0, MaxFrame}

\* loopFrames of an entry that has none
NoLoopFrames == <<>>

\* A file name of the hexagons revision, as the string tests of
\* parseAnimationProps see it: whether it includes 'loop' and what
\* /Loop-(\d+)-(\d+)/i matches, whether it includes 'freeze' and what
\* /Freeze-(\d+)/i matches (<<>>: no match; the digits as parseInt reads them)
PlainName ==
    [loop |-> FALSE, loopMatch |-> <<>>, freeze |-> FALSE, freezeMatch |-> <<>>]

LoopName(lf) ==
    [loop |-> TRUE, loopMatch |-> lf, freeze |-> FALSE, freezeMatch |-> <<>>]

FreezeName(f) ==
    [loop |-> FALSE, loopMatch |-> <<>>, freeze |-> TRUE, freezeMatch |-> f]

\* The configuration entries of ANIMATION_SECTIONS, by their kinds: the
\* hexagons revision names loop bounds and freeze point in the file name and
\* declares only the continuous kind; the later revisions declare
\* animationType, and loopFrames for a Loop clip.
Entries(r) ==
    IF r = "hexagons"
    THEN {[animationType |-> "continuous", fileName |-> PlainName]}
         \cup {[animationType |-> "", fileName |-> n] :
                  n \in {PlainName}
                        \cup {LoopName(lf) : lf \in LoopFrames}
                        \cup {FreezeName(<<f>>) : f \in FreezeFrames}}
    ELSE {e \in [animationType : AnimationTypes(r),
                 loopFrames : {NoLoopFrames} \cup LoopFrames] :
            e.animationType = "loop" <=> e.loopFrames # NoLoopFrames}

\* loop bounds an entry may hold, malformed ones among them: a negative bound,
\* start >= end, an end beyond the last frame
BoundPairs == (-1..(MaxFrame + 1)) \X (-1..(MaxFrame + 1))

\* the numbers a file name may hold (\d+ matches no sign)
NamePairs == (0..(MaxFrame + 1)) \X (0..(MaxFrame + 1))

\* the bounds that an entry of another kind than Loop holds
SpareLoopFrames == {lf \in LoopFrames : lf[1] = 0 /\ lf[2] = MaxFrame}

\* Any entry the constructor may be given: a declared kind or none, with or
\* without loopFrames, the bounds of a Loop clip being any pair of integers;
\* in the hexagons revision any file name, with no kind declared or one that
\* takes no bounds.
AnyEntries(r) ==
    IF r = "hexagons"
    THEN {e \in [animationType : {"", "continuous", "playOnce"},
                 fileName : {PlainName}
                     \cup {LoopName(m) : m \in {<<>>} \cup NamePairs}
                     \cup {FreezeName(m) : m \in {<<>>} \cup {<<f>> : f \in FreezeFrames}}
                     \cup {[LoopName(lf) EXCEPT !.freeze = TRUE] : lf \in SpareLoopFrames}] :
            e.animationType # "" =>
                e.fileName \in {PlainName, FreezeName(<<>>)}
                                 \cup {LoopName(lf) : lf \in SpareLoopFrames}}
    ELSE {e \in [animationType : {""} \cup AnimationTypes(r),
                 loopFrames : {NoLoopFrames} \cup BoundPairs] :
            e.animationType # "loop" =>
                e.loopFrames \in {NoLoopFrames} \cup SpareLoopFrames}

\* parseAnimationProps of the second and fixed revisions taking the bounds of
\* any entry that has loopFrames, whatever its kind
parseAnimationProps_Themed_AnyKind(data) ==
    LET type == IF data.animationType # "" THEN data.animationType ELSE "playOnce"
    IN  IF data.loopFrames # NoLoopFrames
        THEN [animationType |-> type,
              loopStartFrame |-> <<data.loopFrames[1]>>,
              loopEndFrame |-> <<data.loopFrames[2]>>,
              freezeFrame |-> <<>>]
        ELSE [animationType |-> type,
              loopStartFrame |-> <<0>>, loopEndFrame |-> <<0>>,
              freezeFrame |-> <<>>]

\* parseAnimationProps of the second and fixed revisions: the fields it assigns
\* (<<v>>: assigned v; <<>>: not a field of the controller)
parseAnimationProps_Themed(data) ==
    LET type == IF data.animationType # "" THEN data.animationType ELSE "playOnce"
        looping == type = "loop"
    IN  IF looping /\ data.loopFrames # NoLoopFrames
        THEN [animationType |-> type,
              loopStartFrame |-> <<data.loopFrames[1]>>,
              loopEndFrame |-> <<data.loopFrames[2]>>,
              freezeFrame |-> <<>>]
        ELSE [animationType |-> type,
              loopStartFrame |-> <<0>>, loopEndFrame |-> <<0>>,
              freezeFrame |-> <<>>]

\* parseAnimationProps of the hexagons revision: the fields it assigns
\* (<<v>>: assigned v; <<>>: left unassigned)
parseAnimationProps_Hexagons(data) ==
    IF data.animationType # ""
    THEN [animationType |-> data.animationType,
          loopStartFrame |-> <<>>, loopEndFrame |-> <<>>, freezeFrame |-> <<>>]
    ELSE
    LET name == data.fileName IN
    IF name.loop
    THEN [animationType |-> "loop",
          loopStartFrame |-> IF name.loopMatch # <<>> THEN <<name.loopMatch[1]>>
                             ELSE <<0>>,
          loopEndFrame |-> IF name.loopMatch # <<>> THEN <<name.loopMatch[2]>>
                           ELSE <<0>>,
          freezeFrame |-> <<>>]
    ELSE IF name.freeze
    THEN [animationType |-> "freeze",
          loopStartFrame |-> <<>>, loopEndFrame |-> <<>>,
          freezeFrame |-> IF name.freezeMatch # <<>> THEN name.freezeMatch
                          ELSE <<0>>]
    ELSE [animationType |-> "playOnce",
          loopStartFrame |-> <<>>, loopEndFrame |-> <<>>, freezeFrame |-> <<>>]

parseAnimationProps(data) ==
    IF rev = "hexagons" THEN parseAnimationProps_Hexagons(data)
    ELSE parseAnimationProps_Themed(data)

\* populateGrid of the hexagons revision: wrapper.dataset.timelineType, told by
\* the file name unless the entry declares the continuous kind
timelineType_Hexagons(data) ==
    LET byName == IF data.fileName.loop THEN "loop" ELSE "simple"
    IN  IF data.animationType = "continuous" THEN "simple" ELSE byName

\* populateGrid of the second and fixed revisions
timelineType_Themed(data) ==
    IF data.animationType = "loop" THEN "loop" ELSE "simple"

timelineType(data) ==
    IF rev = "hexagons" THEN timelineType_Hexagons(data)
    ELSE timelineType_Themed(data)

\* A frame field of the constructed card.  A field the constructor left
\* unassigned is one that no handler reads for a card of that kind; it is kept
\* as 0.
FrameField(assigned) == IF assigned = <<>> THEN 0 ELSE assigned[1]

isLooping == animationType = "loop"

isContinuous == animationType = "continuous"

\* the theme toggle exists in the second and fixed revisions only
HasThemeToggle == rev \in {"second", "fixed"}

-----------------------------------------------------------------------------
(* Callback references *)

\* this.boundOnEnterFrame: the one reference created in the constructor
boundOnEnterFrame == 0

\* The reference a handler passes to add/removeEventListener('enterFrame', ...):
\* the second revision evaluates `this.onEnterFrame.bind(this)` at every call,
\* which yields a function never seen before; the others pass boundOnEnterFrame.
EnterFrameCallback(s) ==
    IF rev = "second" THEN s.nextBind ELSE boundOnEnterFrame

\* A function registered by addEventListener keeps its identity for as long as it
\* stays registered, so the next bind gets a new one.  (A function bound only to be
\* passed to removeEventListener is dropped after the call: no identity is kept.)
AfterBind(s) ==
    IF rev = "second" THEN [s EXCEPT !.nextBind = @ + 1] ELSE s

-----------------------------------------------------------------------------
(* The playback engine handle *)

\* lottie.loadAnimation({loop, autoplay, path}): a handle that is not loaded
\* yet and has no listener
loadAnimation(continuous, frames) ==
    [ loaded       |-> FALSE,
      totalFrames  |-> frames,
      currentFrame |-> 0,
      isPaused     |-> ~continuous,
      loop         |-> continuous,
      enterFrame   |-> {},      \* callbacks registered for 'enterFrame'
      DOMLoaded    |-> 0,       \* number of listeners for 'DOMLoaded'
      complete     |-> 0,       \* number of listeners for 'complete'
      completing   |-> FALSE,
      failed       |-> FALSE ]  \* the engine could not load the clip

\* this.lottieAnimation = null: the constructor has not loaded a handle yet
null == [loaded |-> FALSE]

\* the subscriptions a superseded handle still holds
NoHandle == [held |-> FALSE, enterFrame |-> {}, DOMLoaded |-> 0, complete |-> 0]

\* handle.destroy(): the handle drops every listener and renders no more
destroy(anim) ==
    [held |-> TRUE, enterFrame |-> {}, DOMLoaded |-> 0, complete |-> 0]

\* a handle that was dropped without destroy() keeps its listeners
Abandoned(anim) ==
    [held |-> TRUE, enterFrame |-> anim.enterFrame,
     DOMLoaded |-> anim.DOMLoaded, complete |-> anim.complete]

Call(s, op, arg) == [s EXCEPT !.calls = Append(@, <<op, arg>>)]

goToAndPlay(s, f) ==
    Call([s EXCEPT !.anim.currentFrame = f, !.anim.isPaused = FALSE],
         "goToAndPlay", f)

goToAndStop(s, f) ==
    Call([s EXCEPT !.anim.currentFrame = f, !.anim.isPaused = TRUE],
         "goToAndStop", f)

play(s) == Call([s EXCEPT !.anim.isPaused = FALSE], "play", 0)

pause(s) == Call([s EXCEPT !.anim.isPaused = TRUE], "pause", 0)

addEventListener(s, cb) ==
    Call([s EXCEPT !.anim.enterFrame = @ \cup {cb}], "addEventListener", cb)

removeEventListener(s, cb) ==
    Call([s EXCEPT !.anim.enterFrame = @ \ {cb}], "removeEventListener", cb)

-----------------------------------------------------------------------------
(* Numbers of the timeline *)

\* A JavaScript number that is a quotient of two integers, kept as <<n, d>>:
\* d > 0 is the finite value n/d in lowest terms, and d = 0 is a non-finite
\* one: <<0, 0>> is NaN, <<1, 0>> is Infinity, <<-1, 0>> is -Infinity.
NaN == <<0, 0>>

Sign(n) == IF n > 0 THEN 1 ELSE IF n < 0 THEN -1 ELSE 0

Abs(n) == IF n < 0 THEN -n ELSE n

\* greatest common divisor of a >= 0 and b > 0
Gcd(a, b) == CHOOSE g \in 1..b : a % g = 0 /\ b % g = 0
                                 /\ \A h \in (g + 1)..b : a % h # 0 \/ b % h # 0

\* the finite number n/d, d > 0, in lowest terms
Quotient(n, d) == <<n \div Gcd(Abs(n), d), d \div Gcd(Abs(n), d)>>

\* (a / b) * 100 for integers a and b: 0/0 is NaN, a/0 is Infinity or
\* -Infinity, and 100 times those is the same
Percent(a, b) ==
    IF b = 0 THEN <<Sign(a), 0>>
    ELSE IF b < 0 THEN Quotient(-100 * a, -b)
    ELSE Quotient(100 * a, b)

\* Math.max(k, x) for an integer k: NaN if x is NaN
MathMax(k, x) ==
    IF x = NaN THEN NaN
    ELSE IF x[1] < k * x[2] \/ (x[2] = 0 /\ x[1] < 0) THEN <<k, 1>> ELSE x

\* Math.min(k, x) for an integer k: NaN if x is NaN
MathMin(k, x) ==
    IF x = NaN THEN NaN
    ELSE IF x[1] > k * x[2] \/ (x[2] = 0 /\ x[1] > 0) THEN <<k, 1>> ELSE x

\* the width '0%'
Zero == <<0, 1>>

\* the width written without Math.min and Math.max
Clamped_NotClamped(p) == p

\* `${Math.min(100, Math.max(0, p))}%`, p computed once
Clamped(p) == CHOOSE w \in {MathMin(100, MathMax(0, x)) : x \in {p}} : TRUE

\* 100 - x - y for finite x and y
Rest(x, y) ==
    Quotient(100 * x[2] * y[2] - x[1] * y[2] - y[1] * x[2], x[2] * y[2])

-----------------------------------------------------------------------------
(* Timeline *)

\* the timeline before anything was painted
BlankTimeline ==
    [ frameCounter |-> 0,      \* ui.frameCounter: the frame in 'Frame: n'
      marker       |-> Zero,   \* playhead marker: style.left, in percent
      opacity      |-> FALSE,  \* playhead marker: opacity '1' (TRUE) or '0'
      progressFull |-> Zero,   \* single bar: style.width, in percent
      intro        |-> Zero,   \* progress.intro: style.width, in percent
      loop         |-> Zero,   \* progress.loop
      outro        |-> Zero,   \* progress.outro
      active       |-> {},     \* the segments carrying the class 'active'
      built        |-> FALSE,  \* buildTimeline has laid the timeline out
      endLabel     |-> 0,      \* frameNums.end
      introWidth   |-> Zero,   \* segments.intro: style.width, in percent
      loopWidth    |-> Zero,   \* segments.loop
      outroWidth   |-> Zero ]  \* segments.outro

Paint(s, currentFrame, isPlaying) ==
    [s EXCEPT !.paints = Append(@, <<currentFrame, isPlaying>>)]

\* ActiveSegment with the loop segment ending before loopEnd
ActiveSegment_HalfOpen(currentFrame) ==
    IF currentFrame < loopStartFrame THEN "intro"
    ELSE IF currentFrame >= loopStartFrame /\ currentFrame < loopEndFrame THEN "loop"
    ELSE "outro"

\* which of the three segments a frame lies in
ActiveSegment(currentFrame) ==
    IF currentFrame < loopStartFrame THEN "intro"
    ELSE IF currentFrame >= loopStartFrame /\ currentFrame <= loopEndFrame THEN "loop"
    ELSE "outro"

buildTimeline(s) ==
    IF s.totalFrames = 0 THEN s
    ELSE IF isLooping
    THEN LET introPercent == Percent(loopStartFrame, s.totalFrames)
             loopPercent == Percent(loopEndFrame - loopStartFrame, s.totalFrames)
             outroPercent == Rest(introPercent, loopPercent)
         IN  [s EXCEPT !.ui.built = TRUE,
                       !.ui.endLabel = s.totalFrames,
                       !.ui.introWidth = introPercent,
                       !.ui.loopWidth = loopPercent,
                       !.ui.outroWidth = outroPercent]
    ELSE [s EXCEPT !.ui.built = TRUE, !.ui.endLabel = s.totalFrames]

\* updateTimelineUI without the return for a clip that has no frames
updateTimelineUI_NoGuard(s, currentFrame, isPlaying) ==
    LET s1 == Paint([s EXCEPT !.ui.frameCounter = currentFrame],
                    currentFrame, isPlaying)
        totalProgressPercent == Percent(currentFrame, s.totalFrames)
        s2 == [s1 EXCEPT !.ui.marker = totalProgressPercent,
                         !.ui.opacity = isPlaying]
    IN  IF isLooping
        THEN [s2 EXCEPT !.ui.intro = Clamped(Percent(currentFrame, loopStartFrame)),
                        !.ui.loop = Clamped(Percent(currentFrame - loopStartFrame,
                                                    loopEndFrame - loopStartFrame)),
                        !.ui.outro = Clamped(Percent(currentFrame - loopEndFrame,
                                                     s.totalFrames - loopEndFrame)),
                        !.ui.active = IF isPlaying THEN {ActiveSegment(currentFrame)}
                                      ELSE {}]
        ELSE [s2 EXCEPT !.ui.progressFull = totalProgressPercent]

updateTimelineUI(s, currentFrame, isPlaying) ==
    LET s1 == Paint([s EXCEPT !.ui.frameCounter = currentFrame],
                    currentFrame, isPlaying)
    IN
    IF s.totalFrames = 0 THEN s1
    ELSE LET totalProgressPercent == Percent(currentFrame, s.totalFrames)
             s2 == [s1 EXCEPT !.ui.marker = totalProgressPercent,
                              !.ui.opacity = isPlaying]
         IN
         IF isLooping
         THEN LET introProgress == Percent(currentFrame, loopStartFrame)
                  loopProgress == Percent(currentFrame - loopStartFrame,
                                          loopEndFrame - loopStartFrame)
                  outroProgress == Percent(currentFrame - loopEndFrame,
                                           s.totalFrames - loopEndFrame)
              IN  [s2 EXCEPT !.ui.intro = Clamped(introProgress),
                             !.ui.loop = Clamped(loopProgress),
                             !.ui.outro = Clamped(outroProgress),
                             !.ui.active =
                                 IF isPlaying THEN {ActiveSegment(currentFrame)}
                                 ELSE {}]
         ELSE [s2 EXCEPT !.ui.progressFull = totalProgressPercent]

resetTimeline(s) ==
    updateTimelineUI(
        IF isLooping
        THEN [s EXCEPT !.ui.intro = Zero, !.ui.loop = Zero, !.ui.outro = Zero]
        ELSE [s EXCEPT !.ui.progressFull = Zero],
        0, FALSE)

-----------------------------------------------------------------------------
(* Handlers of the hexagons revision *)

\* loadAnimation: the handle the constructor loads, with its listeners
loadAnimation_Hexagons ==
    [loadAnimation(isContinuous, clipFrames)
        EXCEPT !.DOMLoaded = 1,
               !.complete = IF isContinuous THEN 0 ELSE 1]

\* onDOMLoaded_Hexagons treating a continuous card like any other: stopped at
\* frame 0 with no frame callback
onDOMLoaded_Hexagons_StopAll(s) ==
    LET s1 == [s EXCEPT !.totalFrames = s.anim.totalFrames]
    IN  resetTimeline(buildTimeline(goToAndStop(s1, 0)))

onDOMLoaded_Hexagons(s) ==
    LET s1 == [s EXCEPT !.totalFrames = s.anim.totalFrames]
        s2 == IF ~isContinuous
              THEN goToAndStop(s1, 0)
              ELSE addEventListener(s1, boundOnEnterFrame)
        s3 == buildTimeline(s2)
    IN  IF ~isContinuous THEN resetTimeline(s3) ELSE s3

\* onEnterFrame_Hexagons with the outro lock tested only on the un-hovered path
onEnterFrame_Hexagons_LateLock(s) ==
    IF s.totalFrames = 0 THEN s
    ELSE
    LET currentFrame == s.anim.currentFrame
        s1 == updateTimelineUI(s, currentFrame, TRUE)
    IN  IF isContinuous THEN s1
        ELSE IF animationType = "loop" THEN
            IF s.isHovering THEN
                IF currentFrame >= loopEndFrame
                THEN goToAndPlay(s1, loopStartFrame)
                ELSE s1
            ELSE
                IF ~s.isOutroLocked /\ currentFrame >= loopStartFrame
                THEN [s1 EXCEPT !.isOutroLocked = TRUE]
                ELSE s1
        ELSE IF animationType = "freeze" THEN
            IF s.isHovering /\ ~s.isFrozen /\ currentFrame >= freezeFrame
            THEN [pause(s1) EXCEPT !.isFrozen = TRUE]
            ELSE s1
        ELSE s1

\* onEnterFrame_Hexagons freezing a card whether or not it is hovered
onEnterFrame_Hexagons_FreezeUnhovered(s) ==
    IF s.totalFrames = 0 THEN s
    ELSE
    LET currentFrame == s.anim.currentFrame
        s1 == updateTimelineUI(s, currentFrame, TRUE)
    IN  IF isContinuous THEN s1
        ELSE IF animationType = "loop" THEN
            IF s.isOutroLocked THEN s1
            ELSE IF s.isHovering THEN
                IF currentFrame >= loopEndFrame
                THEN goToAndPlay(s1, loopStartFrame)
                ELSE s1
            ELSE
                IF currentFrame >= loopStartFrame
                THEN [s1 EXCEPT !.isOutroLocked = TRUE]
                ELSE s1
        ELSE IF animationType = "freeze" THEN
            IF ~s.isFrozen /\ currentFrame >= freezeFrame
            THEN [pause(s1) EXCEPT !.isFrozen = TRUE]
            ELSE s1
        ELSE s1

onEnterFrame_Hexagons(s) ==
    IF s.totalFrames = 0 THEN s
    ELSE
    LET currentFrame == s.anim.currentFrame
        s1 == updateTimelineUI(s, currentFrame, TRUE)
    IN  IF isContinuous THEN s1
        ELSE IF animationType = "loop" THEN
            IF s.isOutroLocked THEN s1
            ELSE IF s.isHovering THEN
                IF currentFrame >= loopEndFrame
                THEN goToAndPlay(s1, loopStartFrame)
                ELSE s1
            ELSE
                IF currentFrame >= loopStartFrame
                THEN [s1 EXCEPT !.isOutroLocked = TRUE]
                ELSE s1
        ELSE IF animationType = "freeze" THEN
            IF s.isHovering /\ ~s.isFrozen /\ currentFrame >= freezeFrame
            THEN [pause(s1) EXCEPT !.isFrozen = TRUE]
            ELSE s1
        ELSE s1

onComplete_Hexagons(s) ==
    IF isContinuous THEN s
    ELSE
    LET s1 == removeEventListener(s, boundOnEnterFrame)
        s2 == [s1 EXCEPT !.isOutroLocked = FALSE, !.isFrozen = FALSE]
        s3 == resetTimeline(s2)
    IN  IF s.isHovering
        THEN updateTimelineUI(
                 goToAndPlay(addEventListener(s3, boundOnEnterFrame), 0), 0, TRUE)
        ELSE goToAndStop(s3, 0)

\* onHoverStart_Hexagons restarting from frame 0 on every hover
onHoverStart_Hexagons_AlwaysRestart(s) ==
    IF isContinuous THEN s
    ELSE
    LET s1 == addEventListener([s EXCEPT !.isHovering = TRUE], boundOnEnterFrame)
        s2 == IF animationType = "freeze" /\ s.isFrozen THEN s1
              ELSE updateTimelineUI(
                       goToAndPlay([s1 EXCEPT !.isOutroLocked = FALSE], 0),
                       0, TRUE)
    IN  play(s2)

onHoverStart_Hexagons(s) ==
    IF isContinuous THEN s
    ELSE
    LET s1 == addEventListener([s EXCEPT !.isHovering = TRUE], boundOnEnterFrame)
        currentFrame == s.anim.currentFrame
        s2 == IF s.anim.isPaused THEN
                  IF animationType = "freeze" /\ s.isFrozen THEN s1
                  ELSE updateTimelineUI(
                           goToAndPlay([s1 EXCEPT !.isOutroLocked = FALSE], 0),
                           0, TRUE)
              ELSE IF animationType = "loop" /\ s.isOutroLocked
                      /\ currentFrame <= loopEndFrame
                   THEN [s1 EXCEPT !.isOutroLocked = FALSE]
                   ELSE s1
    IN  play(s2)

\* onHoverEnd_Hexagons releasing a frozen card without resuming playback
onHoverEnd_Hexagons_NoResume(s) ==
    IF isContinuous THEN s
    ELSE
    LET s1 == [s EXCEPT !.isHovering = FALSE] IN
    IF animationType = "freeze" THEN
        IF s.isFrozen THEN [s1 EXCEPT !.isFrozen = FALSE] ELSE s1
    ELSE IF animationType # "loop" THEN play(s1)
    ELSE s1

\* onHoverEnd_Hexagons cutting short the pass of a Freeze card not yet frozen
onHoverEnd_Hexagons_CutShort(s) ==
    IF isContinuous THEN s
    ELSE
    LET s1 == [s EXCEPT !.isHovering = FALSE] IN
    IF animationType = "freeze" THEN
        IF s.isFrozen THEN play([s1 EXCEPT !.isFrozen = FALSE])
        ELSE goToAndStop(s1, 0)
    ELSE IF animationType # "loop" THEN play(s1)
    ELSE s1

\* onHoverEnd_Hexagons resuming a frozen card without clearing isFrozen
onHoverEnd_Hexagons_StaysFrozen(s) ==
    IF isContinuous THEN s
    ELSE
    LET s1 == [s EXCEPT !.isHovering = FALSE] IN
    IF animationType = "freeze" THEN
        IF s.isFrozen THEN play(s1) ELSE s1
    ELSE IF animationType # "loop" THEN play(s1)
    ELSE s1

onHoverEnd_Hexagons(s) ==
    IF isContinuous THEN s
    ELSE
    LET s1 == [s EXCEPT !.isHovering = FALSE] IN
    IF animationType = "freeze" THEN
        IF s.isFrozen THEN play([s1 EXCEPT !.isFrozen = FALSE]) ELSE s1
    ELSE IF animationType # "loop" THEN play(s1)
    ELSE s1

-----------------------------------------------------------------------------
(* Handlers of the second and fixed revisions.  The two differ only in the    *)
(* reference passed for the frame callback, see EnterFrameCallback.           *)

\* the handle loadAnimationForTheme loads, with its listeners
ThemedHandle ==
    [loadAnimation(FALSE, clipFrames) EXCEPT !.DOMLoaded = 1, !.complete = 1]

\* loadAnimationForTheme dropping the current handle without destroying it
loadAnimationForTheme_NoDestroy(s) ==
    Call([s EXCEPT !.prev = Abandoned(s.anim), !.anim = ThemedHandle],
         "loadAnimation", 0)

\* loadAnimationForTheme on a constructed card (this.lottieAnimation is set):
\* destroy the current handle, then load a new one and listen to it
loadAnimationForTheme(s) ==
    LET s1 == Call([s EXCEPT !.prev = destroy(s.anim)], "destroy", 0)
    IN  Call([s1 EXCEPT !.anim = ThemedHandle], "loadAnimation", 0)

onThemeChange(s) == loadAnimationForTheme(s)

onDOMLoaded_Themed(s) ==
    LET s1 == [s EXCEPT !.totalFrames = s.anim.totalFrames]
    IN  resetTimeline(buildTimeline(goToAndStop(s1, 0)))

\* onEnterFrame_Themed jumping back only on the exact boundary frame
onEnterFrame_Themed_ExactBoundary(s) ==
    IF s.totalFrames = 0 THEN s
    ELSE
    LET currentFrame == s.anim.currentFrame
        s1 == updateTimelineUI(s, currentFrame, TRUE)
    IN  IF isLooping THEN
            IF s.isOutroLocked THEN s1
            ELSE IF s.isHovering THEN
                IF currentFrame = loopEndFrame
                THEN goToAndPlay(s1, loopStartFrame)
                ELSE s1
            ELSE
                IF currentFrame >= loopStartFrame
                THEN [s1 EXCEPT !.isOutroLocked = TRUE]
                ELSE s1
        ELSE s1

\* onEnterFrame_Themed without the test for a clip that has no frames
onEnterFrame_Themed_NoGuard(s) ==
    LET currentFrame == s.anim.currentFrame
        s1 == updateTimelineUI(s, currentFrame, TRUE)
    IN  IF isLooping THEN
            IF s.isOutroLocked THEN s1
            ELSE IF s.isHovering THEN
                IF currentFrame >= loopEndFrame
                THEN goToAndPlay(s1, loopStartFrame)
                ELSE s1
            ELSE
                IF currentFrame >= loopStartFrame
                THEN [s1 EXCEPT !.isOutroLocked = TRUE]
                ELSE s1
        ELSE s1

\* onEnterFrame_Themed taking a frame lower than the one reported before for a
\* completion: it unsubscribes, clears the outro lock and resets the timeline
onEnterFrame_Themed_WrapCompletes(s) ==
    IF s.totalFrames = 0 THEN s
    ELSE
    LET currentFrame == s.anim.currentFrame
        s1 == updateTimelineUI(s, currentFrame, TRUE)
    IN  IF currentFrame < s.ui.frameCounter
        THEN resetTimeline([removeEventListener(s, EnterFrameCallback(s))
                               EXCEPT !.isOutroLocked = FALSE])
        ELSE IF isLooping THEN
            IF s.isOutroLocked THEN s1
            ELSE IF s.isHovering THEN
                IF currentFrame >= loopEndFrame
                THEN goToAndPlay(s1, loopStartFrame)
                ELSE s1
            ELSE
                IF currentFrame >= loopStartFrame
                THEN [s1 EXCEPT !.isOutroLocked = TRUE]
                ELSE s1
        ELSE s1

\* onEnterFrame_Themed without the loop-back seek: a hovered clip plays on past
\* loopEnd
onEnterFrame_Themed_NoLoopBack(s) ==
    IF s.totalFrames = 0 THEN s
    ELSE
    LET currentFrame == s.anim.currentFrame
        s1 == updateTimelineUI(s, currentFrame, TRUE)
    IN  IF isLooping THEN
            IF s.isOutroLocked \/ s.isHovering THEN s1
            ELSE
                IF currentFrame >= loopStartFrame
                THEN [s1 EXCEPT !.isOutroLocked = TRUE]
                ELSE s1
        ELSE s1

onEnterFrame_Themed(s) ==
    IF s.totalFrames = 0 THEN s
    ELSE
    LET currentFrame == s.anim.currentFrame
        s1 == updateTimelineUI(s, currentFrame, TRUE)
    IN  IF isLooping THEN
            IF s.isOutroLocked THEN s1
            ELSE IF s.isHovering THEN
                IF currentFrame >= loopEndFrame
                THEN goToAndPlay(s1, loopStartFrame)
                ELSE s1
            ELSE
                IF currentFrame >= loopStartFrame
                THEN [s1 EXCEPT !.isOutroLocked = TRUE]
                ELSE s1
        ELSE s1

\* onComplete_Themed leaving the frame callback registered
onComplete_Themed_NoUnsubscribe(s) ==
    LET s1 == s IN
    IF animationType = "playAndHold"
    THEN updateTimelineUI(pause(s1), s.totalFrames, FALSE)
    ELSE
    LET s2 == resetTimeline([s1 EXCEPT !.isOutroLocked = FALSE]) IN
        IF s.isHovering
        THEN updateTimelineUI(
                 goToAndPlay(
                     AfterBind(addEventListener(s2, EnterFrameCallback(s2))), 0),
                 0, TRUE)
        ELSE goToAndStop(s2, 0)

\* onComplete_Themed restarting the clip whether or not the card is hovered
onComplete_Themed_AlwaysRestart(s) ==
    LET s1 == removeEventListener(s, EnterFrameCallback(s)) IN
    IF animationType = "playAndHold"
    THEN updateTimelineUI(pause(s1), s.totalFrames, FALSE)
    ELSE
    LET s2 == resetTimeline([s1 EXCEPT !.isOutroLocked = FALSE]) IN
        updateTimelineUI(
            goToAndPlay(
                AfterBind(addEventListener(s2, EnterFrameCallback(s2))), 0),
            0, TRUE)

onComplete_Themed(s) ==
    LET s1 == removeEventListener(s, EnterFrameCallback(s)) IN
    IF animationType = "playAndHold"
    THEN updateTimelineUI(pause(s1), s.totalFrames, FALSE)
    ELSE
    LET s2 == resetTimeline([s1 EXCEPT !.isOutroLocked = FALSE]) IN
        IF s.isHovering
        THEN updateTimelineUI(
                 goToAndPlay(
                     AfterBind(addEventListener(s2, EnterFrameCallback(s2))), 0),
                 0, TRUE)
        ELSE goToAndStop(s2, 0)

\* onHoverStart_Themed clearing the outro lock on every re-hover
onHoverStart_Themed_AlwaysUnlock(s) ==
    LET s0 == [s EXCEPT !.isHovering = TRUE]
        s1 == AfterBind(addEventListener(s0, EnterFrameCallback(s0)))
        s2 == IF s.anim.isPaused
              THEN updateTimelineUI(
                       goToAndPlay([s1 EXCEPT !.isOutroLocked = FALSE], 0), 0, TRUE)
              ELSE IF isLooping /\ s.isOutroLocked
                   THEN [s1 EXCEPT !.isOutroLocked = FALSE]
                   ELSE s1
    IN  play(s2)

\* onHoverStart_Themed restarting from frame 0 on every hover
onHoverStart_Themed_AlwaysRestart(s) ==
    LET s0 == [s EXCEPT !.isHovering = TRUE]
        s1 == AfterBind(addEventListener(s0, EnterFrameCallback(s0)))
        s2 == updateTimelineUI(
                  goToAndPlay([s1 EXCEPT !.isOutroLocked = FALSE], 0), 0, TRUE)
    IN  play(s2)

onHoverStart_Themed(s) ==
    LET s0 == [s EXCEPT !.isHovering = TRUE]
        s1 == AfterBind(addEventListener(s0, EnterFrameCallback(s0)))
        currentFrame == s.anim.currentFrame
        s2 == IF s.anim.isPaused
              THEN updateTimelineUI(
                       goToAndPlay([s1 EXCEPT !.isOutroLocked = FALSE], 0), 0, TRUE)
              ELSE IF isLooping /\ s.isOutroLocked /\ currentFrame <= loopEndFrame
                   THEN [s1 EXCEPT !.isOutroLocked = FALSE]
                   ELSE s1
    IN  play(s2)

\* onHoverEnd_Themed resetting every kind of card on un-hover
onHoverEnd_Themed_StopAll(s) ==
    LET s1 == [s EXCEPT !.isHovering = FALSE]
        s2 == [s1 EXCEPT !.isOutroLocked = FALSE]
        s3 == removeEventListener(s2, EnterFrameCallback(s2))
    IN  resetTimeline(goToAndStop(s3, 0))

onHoverEnd_Themed(s) ==
    LET s1 == [s EXCEPT !.isHovering = FALSE] IN
    IF animationType = "playAndHold"
    THEN LET s2 == [s1 EXCEPT !.isOutroLocked = FALSE]
             s3 == removeEventListener(s2, EnterFrameCallback(s2))
         IN  resetTimeline(goToAndStop(s3, 0))
    ELSE play(s1)

-----------------------------------------------------------------------------
(* Dispatch on the revision *)

onDOMLoaded(s) ==
    IF rev = "hexagons" THEN onDOMLoaded_Hexagons(s) ELSE onDOMLoaded_Themed(s)

onEnterFrame(s) ==
    IF rev = "hexagons" THEN onEnterFrame_Hexagons(s) ELSE onEnterFrame_Themed(s)

onComplete(s) ==
    IF rev = "hexagons" THEN onComplete_Hexagons(s) ELSE onComplete_Themed(s)

onHoverStart(s) ==
    IF rev = "hexagons" THEN onHoverStart_Hexagons(s) ELSE onHoverStart_Themed(s)

onHoverEnd(s) ==
    IF rev = "hexagons" THEN onHoverEnd_Hexagons(s) ELSE onHoverEnd_Themed(s)

\* attachEventListeners: the hexagons revision attaches no hover listener to a
\* continuous card
HoverListenersAttached == ~(rev = "hexagons" /\ isContinuous)

\* loadAnimation: the hexagons revision listens for 'complete' unless continuous
CompleteListenerAttached == lottieAnimation.complete > 0

-----------------------------------------------------------------------------
(* The engine emitting events *)

\* the engine calls every registered frame callback once; every callback is
\* onEnterFrame bound to this card
RECURSIVE TriggerEnterFrame(_, _)
TriggerEnterFrame(s, n) ==
    IF n = 0 THEN s
    ELSE CHOOSE r \in {TriggerEnterFrame(s1, n - 1) : s1 \in {onEnterFrame(s)}} : TRUE

\* the frame the engine renders next, `d` frames further on: a looping handle
\* wraps around, any other stays on its final frame
NextFrame(anim, d) ==
    IF anim.loop THEN (anim.currentFrame + d) % (anim.totalFrames + 1)
    ELSE IF anim.currentFrame + d >= anim.totalFrames THEN anim.totalFrames
    ELSE anim.currentFrame + d

ReachesEnd(anim, d) ==
    ~anim.loop /\ anim.currentFrame + d >= anim.totalFrames

-----------------------------------------------------------------------------
(* The grid *)

\* The cards of the grid in the order populateGrid constructs them, section by
\* section.  The first is the card modelled in full, the second its sibling.
Slots == 1..(NumSections * CardsPerSection)

SiblingSlot == 2

\* `failing`: the cards whose constructor raises an error; `next`: the card
\* populateGrid turns to next; `constructed`: the cards whose controller
\* exists; `uncaught`: an error has left setupAnimationGrids
NoCards(failing) ==
    [failing |-> failing, next |-> 1, constructed |-> {}, uncaught |-> FALSE]

\* a grid of the one card, assembled
OneCard ==
    [failing |-> {}, next |-> NumSections * CardsPerSection + 1,
     constructed |-> {1}, uncaught |-> FALSE]

\* setupAnimationGrids has returned or was left by an error
Assembled == grid.uncaught \/ grid.next \notin Slots

CardExists == Assembled /\ 1 \in grid.constructed

SiblingExists == Assembled /\ SiblingSlot \in grid.constructed

\* no controller at the sibling's place
NoSibling == [anim |-> null]

\* the fields of a controller as its constructor leaves them
NewSibling ==
    [ totalFrames   |-> 0,
      isHovering    |-> FALSE,
      isOutroLocked |-> FALSE,
      isFrozen      |-> FALSE,
      anim          |-> IF rev = "hexagons" THEN loadAnimation_Hexagons
                                            ELSE ThemedHandle,
      prev          |-> NoHandle,
      nextBind      |-> 1,
      ui            |-> BlankTimeline,
      calls         |-> <<>>,
      paints        |-> <<>> ]

\* what `last` holds before any event: the constructor has run
Constructed ==
    [event |-> "construct", frame |-> 0, ran |-> 0, steady |-> FALSE,
     pre |-> [ isHovering |-> FALSE, isOutroLocked |-> FALSE,
               isFrozen |-> FALSE, totalFrames |-> 0,
               isPaused |-> animationType # "continuous",
               loaded |-> FALSE, failed |-> FALSE, currentFrame |-> 0,
               enterFrame |-> {},
               ui |-> BlankTimeline ]]

-----------------------------------------------------------------------------
(* State plumbing *)

Cur ==
    [ totalFrames   |-> totalFrames,
      isHovering    |-> isHovering,
      isOutroLocked |-> isOutroLocked,
      isFrozen      |-> isFrozen,
      anim          |-> lottieAnimation,
      prev          |-> previous,
      nextBind      |-> nextBind,
      ui            |-> ui,
      calls         |-> <<>>,
      paints        |-> <<>> ]

\* what an event finds: the state it is delivered in
Pre ==
    [ isHovering    |-> isHovering,
      isOutroLocked |-> isOutroLocked,
      isFrozen      |-> isFrozen,
      totalFrames   |-> totalFrames,
      isPaused      |-> lottieAnimation.isPaused,
      loaded        |-> lottieAnimation.loaded,
      failed        |-> lottieAnimation.failed,
      currentFrame  |-> lottieAnimation.currentFrame,
      enterFrame    |-> lottieAnimation.enterFrame,
      ui            |-> ui ]

\* The card is in a steady hover of a Loop clip: a HoverStart found it stopped,
\* with 0 <= loopStart < loopEnd < totalFrames, and since then it has had no
\* HoverEnd, no reload, and no frame event that skipped a frame.
SteadyHover(name, frame) ==
    CASE name = "HoverStart" ->
           \/ last.steady
           \/ /\ isLooping /\ HoverListenersAttached
              /\ lottieAnimation.loaded /\ lottieAnimation.isPaused
              /\ lottieAnimation.currentFrame = 0
              /\ ~isHovering /\ ~isOutroLocked
              /\ lottieAnimation.enterFrame = {}
              /\ 0 <= loopStartFrame /\ loopStartFrame < loopEndFrame
              /\ loopEndFrame < totalFrames
      [] name = "FrameAdvanced" ->
           last.steady /\ frame = lottieAnimation.currentFrame + 1
      [] name = "PlaybackComplete" -> last.steady
      [] OTHER -> FALSE

Event(name, frame, ran) ==
    [ event |-> name, frame |-> frame, ran |-> ran,
      steady |-> SteadyHover(name, frame), pre |-> Pre ]

\* the handler's result `r` is computed once and becomes the next state
Commit(r, ev) ==
    \E s \in {r} :
        /\ totalFrames' = s.totalFrames
        /\ isHovering' = s.isHovering
        /\ isOutroLocked' = s.isOutroLocked
        /\ isFrozen' = s.isFrozen
        /\ lottieAnimation' = s.anim
        /\ previous' = s.prev
        /\ nextBind' = s.nextBind
        /\ ui' = s.ui
        /\ calls' = s.calls
        /\ paints' = s.paints
        /\ last' = ev
        /\ UNCHANGED <<rev, animationData, grid, sibling, animationType,
                       loopStartFrame, loopEndFrame, freezeFrame, clipFrames>>

\* the engine emits the final frame event and the completion event back to back:
\* no other event is handled in between
Idle == ~lottieAnimation.completing

\* binds left for a handler of the second revision (bound of the model)
CanBind ==
    rev = "second" => nextBind <= (IF grid = OneCard THEN MaxBinds ELSE GridBinds)

-----------------------------------------------------------------------------
(* Initial state: the card as its constructor leaves it *)

Init ==
    /\ rev \in Revisions
    /\ animationData \in Entries(rev)
    /\ grid = OneCard
    /\ sibling = NoSibling
    /\ animationType = parseAnimationProps(animationData).animationType
    /\ loopStartFrame = FrameField(parseAnimationProps(animationData).loopStartFrame)
    /\ loopEndFrame = FrameField(parseAnimationProps(animationData).loopEndFrame)
    /\ freezeFrame = FrameField(parseAnimationProps(animationData).freezeFrame)
    /\ clipFrames \in ClipFrames(animationType)
    /\ totalFrames = 0
    /\ isHovering = FALSE
    /\ isOutroLocked = FALSE
    /\ isFrozen = FALSE
    /\ lottieAnimation = IF rev = "hexagons" THEN loadAnimation_Hexagons
                                             ELSE ThemedHandle
    /\ previous = NoHandle
    /\ nextBind = 1
    /\ ui = BlankTimeline
    /\ calls = <<>>
    /\ paints = <<>>
    /\ last = Constructed

-----------------------------------------------------------------------------
(* Events *)

\* mouseenter on the card
HoverStart ==
    /\ CardExists
    /\ Idle
    /\ CanBind
    /\ \E s \in {Cur} :
         Commit(IF HoverListenersAttached THEN onHoverStart(s) ELSE s,
                Event("HoverStart", lottieAnimation.currentFrame,
                      IF HoverListenersAttached THEN 1 ELSE 0))

\* mouseleave on the card
HoverEnd ==
    /\ CardExists
    /\ Idle
    /\ \E s \in {Cur} :
         Commit(IF HoverListenersAttached THEN onHoverEnd(s) ELSE s,
                Event("HoverEnd", lottieAnimation.currentFrame,
                      IF HoverListenersAttached THEN 1 ELSE 0))

\* the engine renders the next frame and emits 'enterFrame'
FrameAdvanced ==
    /\ CardExists
    /\ Idle
    /\ lottieAnimation.loaded
    /\ ~lottieAnimation.isPaused
    /\ \E d \in 1..MaxStep :
         LET f == NextFrame(lottieAnimation, d)
             n == Cardinality(lottieAnimation.enterFrame)
         IN  \E s \in {[Cur EXCEPT !.anim.currentFrame = f,
                                   !.anim.completing = ReachesEnd(lottieAnimation, d)]} :
                Commit(TriggerEnterFrame(s, n), Event("FrameAdvanced", f, n))

\* the engine has reached the final frame and emits 'complete'
PlaybackComplete ==
    /\ CardExists
    /\ lottieAnimation.completing
    /\ isHovering => CanBind
    /\ \E s \in {[Cur EXCEPT !.anim.completing = FALSE]} :
         Commit(IF CompleteListenerAttached THEN onComplete(s) ELSE s,
                Event("PlaybackComplete", lottieAnimation.currentFrame,
                      IF CompleteListenerAttached THEN 1 ELSE 0))

\* the engine has loaded the clip and emits 'DOMLoaded'
LoadReady ==
    /\ CardExists
    /\ ~lottieAnimation.loaded
    /\ ~lottieAnimation.failed
    /\ \E s \in {[Cur EXCEPT !.anim.loaded = TRUE]} :
         Commit(onDOMLoaded(s),
                Event("LoadReady", lottieAnimation.currentFrame,
                      lottieAnimation.DOMLoaded))

\* the theme toggle changes: the clip is reloaded for the other theme
ThemeChange ==
    /\ CardExists
    /\ Idle
    /\ HasThemeToggle
    /\ \E s \in {Cur} :
         Commit(onThemeChange(s), Event("ThemeChange", lottieAnimation.currentFrame, 1))

\* the engine cannot load the clip: it emits 'data_failed', for which the
\* controller has registered no listener, and will emit no 'DOMLoaded'
LoadFailed ==
    /\ CardExists
    /\ ~lottieAnimation.loaded
    /\ ~lottieAnimation.failed
    /\ \E s \in {[Cur EXCEPT !.anim.failed = TRUE]} :
         Commit(s, Event("LoadFailed", lottieAnimation.currentFrame, 0))

Next ==
    \/ HoverStart
    \/ HoverEnd
    \/ FrameAdvanced
    \/ PlaybackComplete
    \/ LoadReady
    \/ LoadFailed
    \/ ThemeChange

Spec == Init /\ [][Next]_vars

\* The engine keeps rendering: while a loaded handle is playing the next frame
\* event comes, and a handle that reached its final frame reports completion.
FairSpec == Spec /\ WF_vars(FrameAdvanced) /\ WF_vars(PlaybackComplete)

-----------------------------------------------------------------------------
(* A pointer that enters and leaves in turn *)

\* mouseenter when the pointer is outside the card (isHovering is set by every
\* mouseenter and cleared by every mouseleave the card handles)
EnterFromOutside == ~isHovering /\ HoverStart

\* mouseleave when the pointer is on the card
LeaveFromInside == isHovering /\ HoverEnd

AlternatingNext ==
    \/ EnterFromOutside
    \/ LeaveFromInside
    \/ FrameAdvanced
    \/ PlaybackComplete
    \/ LoadReady
    \/ LoadFailed
    \/ ThemeChange

\* the card when hover events alternate: HoverStart, HoverEnd, HoverStart, ...
AlternatingSpec == Init /\ [][AlternatingNext]_vars

-----------------------------------------------------------------------------
(* Events of a superseded handle *)

\* the last event was a reload, so the handle it superseded may still emit what
\* it was working towards
JustReloaded == last.event = "ThemeChange" /\ previous.held

\* the handle a reload superseded before it had loaded its clip finishes
\* loading and emits 'DOMLoaded' to the listeners it still holds; the handler
\* works on this.lottieAnimation, the new handle
StaleLoadReady ==
    /\ CardExists
    /\ JustReloaded
    /\ ~last.pre.loaded /\ ~last.pre.failed
    /\ \E s \in {Cur} :
         Commit(IF previous.DOMLoaded > 0 THEN onDOMLoaded(s) ELSE s,
                Event("StaleLoadReady", lottieAnimation.currentFrame,
                      previous.DOMLoaded))

\* the handle a reload superseded while it was playing reaches its end and
\* emits 'complete' to the listeners it still holds
StalePlaybackComplete ==
    /\ CardExists
    /\ JustReloaded
    /\ last.pre.loaded /\ ~last.pre.isPaused
    /\ isHovering => CanBind
    /\ \E s \in {Cur} :
         Commit(IF previous.complete > 0 THEN onComplete(s) ELSE s,
                Event("StalePlaybackComplete", lottieAnimation.currentFrame,
                      previous.complete))

ReloadNext ==
    \/ HoverStart
    \/ HoverEnd
    \/ FrameAdvanced
    \/ PlaybackComplete
    \/ LoadReady
    \/ LoadFailed
    \/ ThemeChange
    \/ StaleLoadReady
    \/ StalePlaybackComplete

\* the card with the events that a handle it superseded may still emit
ReloadSpec == Init /\ [][ReloadNext]_vars

-----------------------------------------------------------------------------
(* The constructor applied to any configuration entry *)

\* the fields of the card before its constructor has run
Unconstructed ==
    /\ animationType = ""
    /\ loopStartFrame = 0
    /\ loopEndFrame = 0
    /\ freezeFrame = 0
    /\ totalFrames = 0
    /\ isHovering = FALSE
    /\ isOutroLocked = FALSE
    /\ isFrozen = FALSE
    /\ lottieAnimation = null
    /\ previous = NoHandle
    /\ nextBind = 1
    /\ ui = BlankTimeline
    /\ calls = <<>>
    /\ paints = <<>>
    /\ last = [event |-> "entry", frame |-> 0, ran |-> 0, steady |-> FALSE,
               pre |-> <<>>]

\* new LottieCard(wrapper, animationData): the fields the constructor sets,
\* parseAnimationProps, and the first load
Constructor ==
    /\ UNCHANGED <<rev, animationData, clipFrames>>
    /\ animationType' = parseAnimationProps(animationData).animationType
    /\ loopStartFrame' = FrameField(parseAnimationProps(animationData).loopStartFrame)
    /\ loopEndFrame' = FrameField(parseAnimationProps(animationData).loopEndFrame)
    /\ freezeFrame' = FrameField(parseAnimationProps(animationData).freezeFrame)
    /\ totalFrames' = 0
    /\ isHovering' = FALSE
    /\ isOutroLocked' = FALSE
    /\ isFrozen' = FALSE
    /\ lottieAnimation' = (IF rev = "hexagons" THEN loadAnimation_Hexagons
                                               ELSE ThemedHandle)'
    /\ previous' = NoHandle
    /\ nextBind' = 1
    /\ ui' = BlankTimeline
    /\ calls' = <<>>
    /\ paints' = <<>>
    /\ last' = Constructed'

ConfigInit ==
    /\ rev \in Revisions
    /\ animationData \in AnyEntries(rev)
    /\ clipFrames \in AnyClipFrames
    /\ grid = NoCards({})
    /\ sibling = NoSibling
    /\ Unconstructed

\* the one card of the grid is constructed
Construct ==
    /\ ~Assembled
    /\ grid' = OneCard
    /\ sibling' = sibling
    /\ Constructor

\* the card is constructed and its clip loads, or fails to
ConfigNext ==
    \/ Construct
    \/ LoadReady
    \/ LoadFailed

ConfigSpec == ConfigInit /\ [][ConfigNext]_vars

-----------------------------------------------------------------------------
(* The grid assembly and the sibling card *)

\* the grid before setupAnimationGrids runs: the entries of every kind, any
\* of the cards being one whose constructor raises an error
AssemblyInit ==
    /\ rev \in Revisions
    /\ animationData \in Entries(rev)
    /\ clipFrames = MaxFrame
    /\ grid \in {NoCards(failing) : failing \in SUBSET Slots}
    /\ sibling = NoSibling
    /\ Unconstructed

\* the entries of a grid whose clips have GridFrames frames
GridEntries(r) ==
    {e \in Entries(r) :
        /\ r = "hexagons" =>
              /\ e.fileName.loop => e.fileName.loopMatch[2] <= GridFrames
              /\ e.fileName.freeze => e.fileName.freezeMatch[1] <= GridFrames
        /\ r # "hexagons" =>
              (e.loopFrames # NoLoopFrames => e.loopFrames[2] <= GridFrames)}

\* a grid of cards of one kind, none of which fails to construct
GridInit ==
    /\ rev \in Revisions
    /\ animationData \in GridEntries(rev)
    /\ clipFrames = GridFrames
    /\ grid = NoCards({})
    /\ sibling = NoSibling
    /\ Unconstructed

\* One turn of the forEach of populateGrid, setupAnimationGrids calling it for
\* one section after the other: the card's elements are set up and its
\* controller is constructed.  Nothing catches an error the constructor raises:
\* it ends both loops and leaves setupAnimationGrids.
Assemble ==
    /\ ~Assembled
    /\ IF grid.next \in grid.failing
       THEN /\ grid' = [grid EXCEPT !.uncaught = TRUE]
            /\ UNCHANGED <<rev, animationData, sibling, animationType,
                           loopStartFrame, loopEndFrame, freezeFrame, clipFrames,
                           totalFrames, isHovering, isOutroLocked, isFrozen,
                           lottieAnimation, previous, nextBind, ui, calls,
                           paints, last>>
       ELSE /\ grid' = [grid EXCEPT !.next = @ + 1,
                                    !.constructed = @ \cup {grid.next}]
            /\ IF grid.next = 1
               THEN Constructor /\ sibling' = sibling
               ELSE /\ sibling' = IF grid.next = SiblingSlot THEN NewSibling
                                  ELSE sibling
                    /\ UNCHANGED <<rev, animationData, animationType,
                                   loopStartFrame, loopEndFrame, freezeFrame,
                                   clipFrames, totalFrames, isHovering,
                                   isOutroLocked, isFrozen, lottieAnimation,
                                   previous, nextBind, ui, calls, paints, last>>

\* Receiver with every listener bound to the controller of the first card
Receiver_First(slot) == 1

\* The controller whose handlers run for an event on the card in `slot`: the
\* constructor registers its own methods, bound to itself, on its own
\* container and on the handle it loaded.
Receiver(slot) == slot

\* the controller that receives the events of the sibling card
SiblingState == IF Receiver(SiblingSlot) = 1 THEN Cur ELSE sibling

\* the handler's result becomes the state of the controller that ran it
SiblingCommit(r) ==
    \E s \in {r} :
        IF Receiver(SiblingSlot) = 1
        THEN Commit(s, last)
        ELSE /\ sibling' = [s EXCEPT !.calls = <<>>, !.paints = <<>>]
             /\ UNCHANGED <<rev, animationData, grid, animationType,
                            loopStartFrame, loopEndFrame, freezeFrame,
                            clipFrames, totalFrames, isHovering, isOutroLocked,
                            isFrozen, lottieAnimation, previous, nextBind, ui,
                            calls, paints, last>>

SiblingIdle == ~SiblingState.anim.completing

SiblingCanBind == rev = "second" => SiblingState.nextBind <= GridBinds

SiblingHoverStart ==
    /\ SiblingExists
    /\ SiblingIdle
    /\ SiblingCanBind
    /\ \E s \in {SiblingState} :
         SiblingCommit(IF HoverListenersAttached THEN onHoverStart(s) ELSE s)

SiblingHoverEnd ==
    /\ SiblingExists
    /\ SiblingIdle
    /\ \E s \in {SiblingState} :
         SiblingCommit(IF HoverListenersAttached THEN onHoverEnd(s) ELSE s)

SiblingFrameAdvanced ==
    /\ SiblingExists
    /\ SiblingIdle
    /\ SiblingState.anim.loaded
    /\ ~SiblingState.anim.isPaused
    /\ \E d \in 1..MaxStep :
         LET f == NextFrame(SiblingState.anim, d)
             n == Cardinality(SiblingState.anim.enterFrame)
         IN  \E s \in {[SiblingState EXCEPT
                           !.anim.currentFrame = f,
                           !.anim.completing = ReachesEnd(SiblingState.anim, d)]} :
                SiblingCommit(TriggerEnterFrame(s, n))

SiblingPlaybackComplete ==
    /\ SiblingExists
    /\ SiblingState.anim.completing
    /\ SiblingState.isHovering => SiblingCanBind
    /\ \E s \in {[SiblingState EXCEPT !.anim.completing = FALSE]} :
         SiblingCommit(IF s.anim.complete > 0 THEN onComplete(s) ELSE s)

SiblingLoadReady ==
    /\ SiblingExists
    /\ ~SiblingState.anim.loaded
    /\ ~SiblingState.anim.failed
    /\ \E s \in {[SiblingState EXCEPT !.anim.loaded = TRUE]} :
         SiblingCommit(onDOMLoaded(s))

SiblingThemeChange ==
    /\ SiblingExists
    /\ SiblingIdle
    /\ HasThemeToggle
    /\ \E s \in {SiblingState} : SiblingCommit(onThemeChange(s))

\* an event on the sibling card
SiblingEvent ==
    \/ SiblingHoverStart
    \/ SiblingHoverEnd
    \/ SiblingFrameAdvanced
    \/ SiblingPlaybackComplete
    \/ SiblingLoadReady
    \/ SiblingThemeChange

AssemblySpec == AssemblyInit /\ [][Assemble]_vars

GridNext ==
    \/ Assemble
    \/ Next
    \/ SiblingEvent

GridSpec == GridInit /\ [][GridNext]_vars

-----------------------------------------------------------------------------
(* Vocabulary of the properties *)

Subscriptions == Cardinality(lottieAnimation.enterFrame)

\* the last event ran the controller's handler for it
Handled(name) == last.event = name /\ last.ran > 0

Issued(op) == \E i \in 1..Len(calls) : calls[i][1] = op

IssuedWith(op, arg) == \E i \in 1..Len(calls) : calls[i] = <<op, arg>>

Playing == lottieAnimation.loaded /\ ~lottieAnimation.isPaused

\* the bars a card of this kind shows are empty (a width of 'NaN%', which the
\* intro bar of a card with loopStart = 0 is given at frame 0, is no CSS width:
\* the bar keeps the '0%' that resetTimeline wrote just before)
BarsEmpty ==
    IF isLooping
    THEN ui.intro \in {Zero, NaN} /\ ui.loop = Zero /\ ui.outro = Zero
    ELSE ui.progressFull = Zero

TimelineReset ==
    /\ ui.frameCounter = 0
    /\ BarsEmpty
    /\ ui.opacity = FALSE
    /\ ui.active = {}

FlagsUnchanged ==
    /\ isHovering = last.pre.isHovering
    /\ isOutroLocked = last.pre.isOutroLocked
    /\ isFrozen = last.pre.isFrozen
    /\ totalFrames = last.pre.totalFrames

-----------------------------------------------------------------------------
(* C1 *)

\* C1 (as claimed): whatever events a card has received it holds at most one
\* frame-event subscription on its engine handle, and right after a HoverStart
\* it holds exactly one.
C1_SingleSubscription ==
    /\ Subscriptions <= 1
    /\ (Handled("HoverStart") => Subscriptions = 1)

\* C1 restricted to the revisions that register this.boundOnEnterFrame
C1_SingleSubscription_BoundCallback ==
    rev # "second" => C1_SingleSubscription

-----------------------------------------------------------------------------
(* C2 *)

\* C2 (as claimed): an unsubscribe names a registered callback whenever one is
\* registered, so that after PlaybackComplete of an un-hovered PlayOnce or Loop
\* card, and after HoverEnd of a PlayAndHold card, no frame-event subscription
\* is left.
C2_UnsubscribeRemoves ==
    /\ \A i \in 1..Len(calls) :
          (calls[i][1] = "removeEventListener" /\ last.pre.enterFrame # {})
              => calls[i][2] \in last.pre.enterFrame
    /\ (Handled("PlaybackComplete") /\ animationType \in {"playOnce", "loop"}
            /\ ~isHovering)
          => Subscriptions = 0
    /\ (Handled("HoverEnd") /\ animationType = "playAndHold")
          => Subscriptions = 0

\* C2 restricted to the revisions that register this.boundOnEnterFrame
C2_UnsubscribeRemoves_BoundCallback ==
    rev # "second" => C2_UnsubscribeRemoves

-----------------------------------------------------------------------------
(* C3 *)

LoopBackDone ==
    /\ IssuedWith("goToAndPlay", loopStartFrame)
    /\ lottieAnimation.currentFrame = loopStartFrame
    /\ ~lottieAnimation.isPaused

\* C3 (as claimed): in a Loop card every frame event with frame >= loopEnd
\* delivered while hovering seeks-and-plays to loopStart, and the frame the
\* handle then reports is loopStart.
C3_LoopBackWheneverHovering ==
    (isLooping /\ Handled("FrameAdvanced") /\ last.pre.isHovering
        /\ last.frame >= loopEndFrame)
      => LoopBackDone

\* C3 (amended): in a Loop card every frame event with frame >= loopEnd
\* delivered while hovering with isOutroLocked false seeks-and-plays to
\* loopStart, and the frame the handle then reports is loopStart, also when the
\* reported frame is beyond loopEnd; with isOutroLocked true no seek is issued.
C3_LoopBackUnlessLocked ==
    (isLooping /\ Handled("FrameAdvanced") /\ last.pre.isHovering
        /\ last.frame >= loopEndFrame)
      => IF last.pre.isOutroLocked
         THEN ~Issued("goToAndPlay") /\ lottieAnimation.currentFrame = last.frame
         ELSE LoopBackDone

\* the engine skipped the boundary frame and the card looped back
C3_Witness ==
    /\ isLooping /\ Handled("FrameAdvanced")
    /\ last.pre.isHovering /\ ~last.pre.isOutroLocked
    /\ last.pre.currentFrame < loopEndFrame
    /\ last.frame > loopEndFrame
    /\ LoopBackDone

-----------------------------------------------------------------------------
(* C4 *)

\* C4: in a Loop card a frame event with frame >= loopStart delivered while not
\* hovering leaves isOutroLocked true, and isOutroLocked goes from true to false
\* only on PlaybackComplete or on a HoverStart at a frame <= loopEnd.
C4_OutroLock ==
    isLooping =>
      /\ (Handled("FrameAdvanced") /\ ~last.pre.isHovering
             /\ last.frame >= loopStartFrame)
           => isOutroLocked
      /\ (last.pre.isOutroLocked /\ ~isOutroLocked)
           => \/ last.event = "PlaybackComplete"
              \/ last.event = "HoverStart" /\ last.pre.currentFrame <= loopEndFrame

\* a re-hover at a frame beyond loopEnd found the lock set and left it set
C4_Witness ==
    /\ isLooping /\ Handled("HoverStart")
    /\ last.pre.isOutroLocked /\ isOutroLocked
    /\ last.pre.currentFrame > loopEndFrame

-----------------------------------------------------------------------------
(* C5 *)

\* C5 (as claimed): PlaybackComplete of a PlayOnce or Loop card unsubscribes
\* the frame callback, clears isOutroLocked and resets the timeline; a hovered
\* card is then re-subscribed and restarted from frame 0, an un-hovered card is
\* stopped at frame 0 with no frame-event subscription left.
C5_CompleteResets ==
    (Handled("PlaybackComplete") /\ animationType \in {"playOnce", "loop"})
      => /\ calls[1][1] = "removeEventListener"
         /\ ~isOutroLocked
         /\ lottieAnimation.currentFrame = 0
         /\ ui.frameCounter = 0 /\ BarsEmpty
         /\ IF isHovering
            THEN /\ Issued("addEventListener")
                 /\ calls[Len(calls)] = <<"goToAndPlay", 0>>
                 /\ Subscriptions = 1
                 /\ ~lottieAnimation.isPaused
            ELSE /\ calls[Len(calls)] = <<"goToAndStop", 0>>
                 /\ Subscriptions = 0
                 /\ lottieAnimation.isPaused
                 /\ TimelineReset

\* C5 restricted to the revisions that register this.boundOnEnterFrame, with
\* the exact engine calls
C5_CompleteResets_BoundCallback ==
    (rev # "second" /\ Handled("PlaybackComplete")
        /\ animationType \in {"playOnce", "loop"})
      => /\ C5_CompleteResets
         /\ calls = IF isHovering
                    THEN << <<"removeEventListener", boundOnEnterFrame>>,
                            <<"addEventListener", boundOnEnterFrame>>,
                            <<"goToAndPlay", 0>> >>
                    ELSE << <<"removeEventListener", boundOnEnterFrame>>,
                            <<"goToAndStop", 0>> >>

\* an un-hovered Loop card completed its outro and was stopped
C5_Witness ==
    /\ rev = "fixed" /\ isLooping /\ Handled("PlaybackComplete")
    /\ last.pre.isOutroLocked /\ ~isHovering
    /\ last.pre.enterFrame # {}
    /\ Subscriptions = 0 /\ lottieAnimation.isPaused

-----------------------------------------------------------------------------
(* C6 *)

\* C6: HoverStart on a Loop card: with the engine paused it clears
\* isOutroLocked, seeks to frame 0 and plays; with the engine playing,
\* isOutroLocked true and the frame <= loopEnd it clears isOutroLocked and keeps
\* playing without a seek; with the engine playing at a frame > loopEnd it
\* leaves isOutroLocked as it was.
C6_HoverStartLoop ==
    (isLooping /\ Handled("HoverStart"))
      => /\ isHovering
         /\ ~lottieAnimation.isPaused
         /\ last.pre.isPaused
              => /\ ~isOutroLocked
                 /\ IssuedWith("goToAndPlay", 0)
                 /\ lottieAnimation.currentFrame = 0
         /\ (~last.pre.isPaused /\ last.pre.isOutroLocked
                /\ last.pre.currentFrame <= loopEndFrame)
              => /\ ~isOutroLocked
                 /\ ~Issued("goToAndPlay") /\ ~Issued("goToAndStop")
                 /\ lottieAnimation.currentFrame = last.pre.currentFrame
         /\ (~last.pre.isPaused /\ last.pre.currentFrame > loopEndFrame)
              => isOutroLocked = last.pre.isOutroLocked

\* a re-hover during the outro lock, before loopEnd, re-entered the loop
C6_Witness ==
    /\ isLooping /\ Handled("HoverStart")
    /\ ~last.pre.isPaused /\ last.pre.isOutroLocked
    /\ last.pre.currentFrame <= loopEndFrame /\ last.pre.currentFrame > 0
    /\ ~isOutroLocked /\ lottieAnimation.currentFrame = last.pre.currentFrame

-----------------------------------------------------------------------------
(* C7 *)

\* C7: HoverEnd on a Loop card issues no pause, stop or seek; it leaves
\* isOutroLocked, the current frame and the frame-event subscriptions unchanged
\* and a playing engine playing; of the flags only isHovering changes, to false.
C7_HoverEndLoop ==
    (isLooping /\ Handled("HoverEnd"))
      => /\ ~isHovering
         /\ ~Issued("pause") /\ ~Issued("goToAndStop") /\ ~Issued("goToAndPlay")
         /\ isOutroLocked = last.pre.isOutroLocked
         /\ isFrozen = last.pre.isFrozen
         /\ totalFrames = last.pre.totalFrames
         /\ lottieAnimation.currentFrame = last.pre.currentFrame
         /\ lottieAnimation.enterFrame = last.pre.enterFrame
         /\ (~last.pre.isPaused => ~lottieAnimation.isPaused)
         /\ ui = last.pre.ui

\* a hovered Loop card that was playing inside its loop was un-hovered
C7_Witness ==
    /\ isLooping /\ Handled("HoverEnd")
    /\ last.pre.isHovering /\ ~last.pre.isPaused /\ last.pre.loaded
    /\ last.pre.currentFrame >= loopStartFrame
    /\ last.pre.enterFrame # {}
    /\ ~isHovering /\ Playing

-----------------------------------------------------------------------------
(* C8 *)

\* C8: in a Loop card a frame event delivered while isOutroLocked is true issues
\* no engine call and changes no controller flag, hovered or not, and paints the
\* timeline with the reported frame and isPlaying = true.
C8_LockedFrameOnlyPaints ==
    (isLooping /\ Handled("FrameAdvanced") /\ last.pre.isOutroLocked)
      => /\ calls = <<>>
         /\ FlagsUnchanged
         /\ lottieAnimation.currentFrame = last.frame
         /\ lottieAnimation.isPaused = last.pre.isPaused
         /\ lottieAnimation.enterFrame = last.pre.enterFrame
         /\ Len(paints) = last.ran
         /\ \A i \in 1..Len(paints) : paints[i] = <<last.frame, TRUE>>
         /\ ui.frameCounter = last.frame
         /\ ui.marker = Percent(last.frame, totalFrames)
         /\ ui.opacity
         /\ ui.active = {ActiveSegment(last.frame)}

\* a locked, re-hovered card received a frame at or beyond loopEnd
C8_Witness ==
    /\ isLooping /\ Handled("FrameAdvanced")
    /\ last.pre.isOutroLocked /\ last.pre.isHovering
    /\ last.frame >= loopEndFrame
    /\ calls = <<>>

-----------------------------------------------------------------------------
(* C9 *)

\* the stopped state: engine stopped at frame 0, no outro lock, no frame-event
\* subscription, timeline reset
Stopped ==
    /\ lottieAnimation.isPaused
    /\ lottieAnimation.currentFrame = 0
    /\ ~isOutroLocked
    /\ Subscriptions = 0
    /\ TimelineReset

\* a playing PlayOnce or Loop card has just been un-hovered
UnhoveredWhilePlaying ==
    /\ animationType \in {"playOnce", "loop"}
    /\ Handled("HoverEnd")
    /\ Playing

\* C9 (as claimed): once a playing PlayOnce or Loop card has been un-hovered,
\* and the engine keeps advancing and reports completion, the card reaches the
\* stopped state, unless a HoverStart or a reload arrives first.
C9_EventuallyStopped ==
    UnhoveredWhilePlaying
      ~> (Stopped \/ last.event \in {"HoverStart", "ThemeChange"})

\* C9 restricted to the revisions that register this.boundOnEnterFrame
C9_EventuallyStopped_BoundCallback ==
    (rev # "second" /\ UnhoveredWhilePlaying)
      ~> (Stopped \/ last.event \in {"HoverStart", "ThemeChange"})

\* an un-hovered PlayOnce card that was subscribed ran to completion and stopped
C9_Witness ==
    /\ rev = "fixed" /\ animationType = "playOnce"
    /\ Handled("PlaybackComplete")
    /\ ~last.pre.isHovering /\ last.pre.enterFrame # {}
    /\ last.pre.currentFrame = lottieAnimation.totalFrames
    /\ Stopped

-----------------------------------------------------------------------------
(* C10 *)

\* C10 (as claimed): every HoverStart on a PlayOnce card seeks the engine to
\* frame 0, starts playback and leaves the frame callback subscribed, whether
\* the engine was paused or still playing.
C10_HoverStartAlwaysRestarts ==
    (animationType = "playOnce" /\ Handled("HoverStart"))
      => /\ IssuedWith("goToAndPlay", 0)
         /\ lottieAnimation.currentFrame = 0
         /\ ~lottieAnimation.isPaused
         /\ Subscriptions >= 1

\* C10 (amended): every HoverStart on a PlayOnce card starts playback and leaves
\* the frame callback subscribed; it seeks to frame 0 when the engine was
\* paused, and issues no seek, playback going on from the current frame, when
\* the engine was still playing an earlier pass.
C10_HoverStartRestartsWhenPaused ==
    (animationType = "playOnce" /\ Handled("HoverStart"))
      => /\ isHovering
         /\ ~lottieAnimation.isPaused
         /\ Subscriptions >= 1
         /\ IF last.pre.isPaused
            THEN /\ IssuedWith("goToAndPlay", 0)
                 /\ lottieAnimation.currentFrame = 0
            ELSE /\ ~Issued("goToAndPlay") /\ ~Issued("goToAndStop")
                 /\ lottieAnimation.currentFrame = last.pre.currentFrame

\* a PlayOnce card was re-hovered while an earlier pass was still playing
C10_Witness ==
    /\ animationType = "playOnce" /\ Handled("HoverStart")
    /\ ~last.pre.isPaused /\ last.pre.loaded /\ ~last.pre.isHovering
    /\ last.pre.currentFrame > 0
    /\ lottieAnimation.currentFrame = last.pre.currentFrame

-----------------------------------------------------------------------------
(* C11 *)

\* the held state of a PlayAndHold card: the engine paused on the final frame,
\* the timeline showing that frame with the playhead hidden
Held ==
    /\ lottieAnimation.isPaused
    /\ lottieAnimation.currentFrame = lottieAnimation.totalFrames
    /\ ui.frameCounter = totalFrames
    /\ ~ui.opacity

\* C11 (as claimed): PlaybackComplete of a PlayAndHold card leaves the engine
\* paused on the final frame and the card held, with the frame callback
\* unsubscribed; the card is neither reset to frame 0 nor restarted, hovered or
\* not.
C11_CompleteHolds ==
    (Handled("PlaybackComplete") /\ animationType = "playAndHold")
      => /\ Held
         /\ Subscriptions = 0
         /\ calls[1][1] = "removeEventListener"
         /\ Issued("pause")
         /\ ~Issued("goToAndPlay") /\ ~Issued("goToAndStop") /\ ~Issued("play")
         /\ ~Issued("addEventListener")
         /\ FlagsUnchanged

\* C11 restricted to the revision that registers this.boundOnEnterFrame
C11_CompleteHolds_BoundCallback ==
    rev # "second" => C11_CompleteHolds

\* a hovered PlayAndHold card ran to its final frame and was held there
C11_Witness ==
    /\ rev = "fixed" /\ animationType = "playAndHold"
    /\ Handled("PlaybackComplete")
    /\ isHovering /\ last.pre.enterFrame # {} /\ totalFrames > 0
    /\ Held /\ Subscriptions = 0

-----------------------------------------------------------------------------
(* C12 *)

\* the event found the engine paused on the final frame of a loaded clip
FoundHeld ==
    /\ last.pre.loaded
    /\ last.pre.isPaused
    /\ last.pre.totalFrames > 0
    /\ last.pre.currentFrame = last.pre.totalFrames

\* C12 (as claimed): HoverEnd on a held PlayAndHold card releases the hold in
\* that one step: the frame callback is unsubscribed, the engine is stopped at
\* frame 0 and the timeline is reset, and no playback is started.
C12_HoverEndReleasesHold ==
    (Handled("HoverEnd") /\ animationType = "playAndHold" /\ FoundHeld)
      => /\ Issued("removeEventListener")
         /\ Subscriptions = 0
         /\ IssuedWith("goToAndStop", 0)
         /\ ~Issued("play") /\ ~Issued("goToAndPlay")
         /\ lottieAnimation.isPaused
         /\ lottieAnimation.currentFrame = 0
         /\ ~isHovering /\ ~isOutroLocked
         /\ TimelineReset

\* C12 restricted to the revision that registers this.boundOnEnterFrame
C12_HoverEndReleasesHold_BoundCallback ==
    rev # "second" => C12_HoverEndReleasesHold

\* a held PlayAndHold card was un-hovered and went back to frame 0
C12_Witness ==
    /\ rev = "fixed" /\ animationType = "playAndHold"
    /\ Handled("HoverEnd") /\ FoundHeld /\ last.pre.isHovering
    /\ lottieAnimation.currentFrame = 0 /\ TimelineReset

-----------------------------------------------------------------------------
(* C13 *)

\* the event found a loaded engine playing
FoundPlaying == last.pre.loaded /\ ~last.pre.isPaused

\* the event found a PlayAndHold or Freeze card playing a pass that had not
\* reached its hold point
FoundBeforeHold ==
    /\ FoundPlaying
    /\ \/ animationType = "freeze" /\ ~last.pre.isFrozen
       \/ animationType = "playAndHold" /\ ~FoundHeld

PassContinues ==
    /\ ~Issued("goToAndStop") /\ ~Issued("goToAndPlay") /\ ~Issued("pause")
    /\ lottieAnimation.currentFrame = last.pre.currentFrame
    /\ ~lottieAnimation.isPaused

\* C13 (as claimed): HoverEnd on a PlayAndHold or Freeze card whose pass has not
\* reached its hold point issues no stop and no seek and leaves the pass
\* playing, and such a card goes back to frame 0 only on PlaybackComplete.
C13_HoverEndBeforeHoldContinues ==
    /\ (Handled("HoverEnd") /\ FoundBeforeHold) => PassContinues
    /\ (animationType \in {"freeze", "playAndHold"} /\ ~isHovering
           /\ last.pre.currentFrame > 0 /\ lottieAnimation.currentFrame = 0)
         => last.event = "PlaybackComplete"

\* C13 (amended): HoverEnd on a Freeze card that is not frozen issues no engine
\* call and leaves the pass playing from the same frame, and the frame of a
\* Freeze card goes back to 0 only on PlaybackComplete.  HoverEnd on a
\* PlayAndHold card, held or not, stops the engine at frame 0 and resets the
\* timeline in that step: a pass that was playing is cut short.
C13_HoverEndContinuesFreezeOnly ==
    /\ (Handled("HoverEnd") /\ animationType = "freeze" /\ ~last.pre.isFrozen)
         => /\ calls = <<>>
            /\ ~isHovering /\ ~isFrozen
            /\ lottieAnimation.currentFrame = last.pre.currentFrame
            /\ lottieAnimation.isPaused = last.pre.isPaused
            /\ lottieAnimation.enterFrame = last.pre.enterFrame
            /\ ui = last.pre.ui
    /\ (animationType = "freeze"
           /\ last.pre.currentFrame > 0 /\ lottieAnimation.currentFrame = 0)
         => last.event = "PlaybackComplete"
    /\ (Handled("HoverEnd") /\ animationType = "playAndHold")
         => /\ IssuedWith("goToAndStop", 0)
            /\ ~Issued("play") /\ ~Issued("goToAndPlay")
            /\ lottieAnimation.isPaused
            /\ lottieAnimation.currentFrame = 0
            /\ ~isHovering /\ ~isOutroLocked
            /\ TimelineReset

\* a Freeze card was un-hovered before its freeze frame and went on playing
C13_Witness ==
    /\ animationType = "freeze" /\ Handled("HoverEnd")
    /\ FoundPlaying /\ last.pre.isHovering /\ ~last.pre.isFrozen
    /\ last.pre.currentFrame > 0 /\ last.pre.currentFrame < freezeFrame
    /\ last.pre.enterFrame # {}
    /\ PassContinues

\* a PlayAndHold card was un-hovered in the middle of its pass and was cut short
C13_CutShort ==
    /\ rev = "fixed" /\ animationType = "playAndHold" /\ Handled("HoverEnd")
    /\ FoundPlaying /\ last.pre.isHovering
    /\ last.pre.currentFrame > 0 /\ last.pre.currentFrame < last.pre.totalFrames
    /\ lottieAnimation.currentFrame = 0 /\ lottieAnimation.isPaused

-----------------------------------------------------------------------------
(* C14 *)

\* a frozen Freeze card has just been un-hovered
FrozenCardUnhovered ==
    animationType = "freeze" /\ Handled("HoverEnd") /\ last.pre.isFrozen

\* the un-hover cleared isFrozen and resumed playback from the held frame
ResumedFromHeldFrame ==
    /\ ~isFrozen /\ ~isHovering
    /\ calls = << <<"play", 0>> >>
    /\ lottieAnimation.currentFrame = last.pre.currentFrame
    /\ ~lottieAnimation.isPaused

\* C14: HoverEnd on a frozen Freeze card clears isFrozen and resumes playback
\* from the held frame; and when the engine keeps advancing and reports
\* completion, the card then reaches the stopped state (frame 0, timeline
\* reset, no frame-event subscription) with isFrozen false, unless a HoverStart
\* arrives first.
C14_HoverEndDrainsFrozen ==
    /\ [](FrozenCardUnhovered => ResumedFromHeldFrame)
    /\ FrozenCardUnhovered
         ~> ((Stopped /\ ~isFrozen /\ ~isHovering) \/ last.event = "HoverStart")

\* a card frozen before its final frame was un-hovered and plays on
C14_Witness ==
    /\ FrozenCardUnhovered
    /\ last.pre.isHovering /\ last.pre.isPaused
    /\ last.pre.currentFrame >= freezeFrame
    /\ last.pre.currentFrame < totalFrames
    /\ ResumedFromHeldFrame

\* a card that had been frozen drained its clip and stopped
C14_Drained ==
    /\ animationType = "freeze" /\ freezeFrame > 0 /\ freezeFrame < totalFrames
    /\ Handled("PlaybackComplete") /\ ~last.pre.isHovering
    /\ Stopped /\ ~isFrozen

-----------------------------------------------------------------------------
(* C15 *)

C15_FrameWhileFrozen ==
    /\ animationType = "freeze" /\ Handled("FrameAdvanced")
    /\ last.pre.isFrozen /\ last.frame >= freezeFrame
    /\ isFrozen /\ ~lottieAnimation.isPaused

-----------------------------------------------------------------------------
(* C16 *)

\* the event left the controller's flags and the engine handle as they were
CardUntouched ==
    /\ calls = <<>>
    /\ FlagsUnchanged
    /\ lottieAnimation.isPaused = last.pre.isPaused
    /\ lottieAnimation.enterFrame = last.pre.enterFrame

\* C16: for a Continuous card, HoverStart and HoverEnd run no handler, issue no
\* engine call and change nothing; PlaybackComplete never reaches the card; a
\* frame event issues no engine call and changes no flag, it only paints the
\* timeline with the reported frame; and the card holds no frame-event
\* subscription before LoadReady and exactly one, made by LoadReady, ever after.
C16_ContinuousOnlyPaints ==
    isContinuous =>
      /\ last.event \in {"HoverStart", "HoverEnd"}
           => /\ last.ran = 0
              /\ CardUntouched
              /\ lottieAnimation.currentFrame = last.pre.currentFrame
              /\ ui = last.pre.ui
      /\ last.event # "PlaybackComplete"
      /\ Handled("FrameAdvanced")
           => /\ CardUntouched
              /\ lottieAnimation.currentFrame = last.frame
              /\ totalFrames > 0
                   => /\ paints = << <<last.frame, TRUE>> >>
                      /\ ui.frameCounter = last.frame
                      /\ ui.progressFull = Percent(last.frame, totalFrames)
      /\ Handled("LoadReady")
           => /\ calls = << <<"addEventListener", boundOnEnterFrame>> >>
              /\ ~lottieAnimation.isPaused
      /\ lottieAnimation.enterFrame =
             IF lottieAnimation.loaded THEN {boundOnEnterFrame} ELSE {}

\* a playing Continuous card was hovered in mid-clip and nothing changed
C16_Witness ==
    /\ isContinuous /\ last.event = "HoverStart"
    /\ last.pre.loaded /\ last.pre.currentFrame > 0 /\ totalFrames > 0
    /\ ~isHovering /\ Playing /\ Subscriptions = 1
    /\ ui.frameCounter = lottieAnimation.currentFrame

\* a Continuous card wrapped around from its final frame
C16_WrapAround ==
    /\ isContinuous /\ Handled("FrameAdvanced")
    /\ last.frame < last.pre.currentFrame
    /\ Playing /\ Subscriptions = 1

-----------------------------------------------------------------------------
(* C17 *)

\* the layout buildTimeline writes is as the event found it
LayoutUnchanged ==
    /\ ui.built = last.pre.ui.built
    /\ ui.endLabel = last.pre.ui.endLabel
    /\ ui.introWidth = last.pre.ui.introWidth
    /\ ui.loopWidth = last.pre.ui.loopWidth
    /\ ui.outroWidth = last.pre.ui.outroWidth

\* C17: a frame event handled while totalFrames is 0 issues no engine call,
\* changes no flag of the controller, paints nothing and leaves every value of
\* the timeline as it was; and buildTimeline, which runs at LoadReady, leaves
\* the layout untouched when the loaded clip has no frames.
C17_NoFramesNoOp ==
    /\ (Handled("FrameAdvanced") /\ last.pre.totalFrames = 0)
         => /\ CardUntouched
            /\ paints = <<>>
            /\ ui = last.pre.ui
    /\ (Handled("LoadReady") /\ totalFrames = 0)
         => /\ LayoutUnchanged
            /\ ~ui.built

\* a hovered, subscribed card whose clip has no frames received a frame event
C17_Witness ==
    /\ Handled("FrameAdvanced") /\ last.pre.totalFrames = 0
    /\ rev = "fixed" /\ last.pre.loaded /\ last.pre.isHovering
    /\ paints = <<>> /\ calls = <<>>

-----------------------------------------------------------------------------
(* C18 *)

\* the superseded handle holds no listener of any kind
PreviousUnsubscribed ==
    /\ previous.enterFrame = {}
    /\ previous.DOMLoaded = 0
    /\ previous.complete = 0

\* C18: a reload destroys the current handle and only then loads the new one,
\* so the superseded handle never holds a frame, completion or load listener
\* while the new handle exists, and the new handle starts with the load and
\* completion listeners only.
C18_ReloadDestroysFirst ==
    /\ PreviousUnsubscribed
    /\ Handled("ThemeChange")
         => /\ calls = << <<"destroy", 0>>, <<"loadAnimation", 0>> >>
            /\ previous.held
            /\ lottieAnimation = ThemedHandle

\* a card was reloaded while it was playing with its frame callback subscribed
C18_Witness ==
    /\ rev = "fixed" /\ Handled("ThemeChange")
    /\ last.pre.loaded /\ ~last.pre.isPaused /\ last.pre.enterFrame # {}
    /\ previous.held /\ PreviousUnsubscribed
    /\ ~lottieAnimation.loaded /\ Subscriptions = 0

-----------------------------------------------------------------------------
(* C19 *)

\* a width that is a number from 0% to 100%, that is a ratio in [0, 1]
IsRatio(w) == w[2] > 0 /\ w[1] >= 0 /\ w[1] <= 100 * w[2]

\* the last event painted the timeline of a loaded Loop card
LoopTimelinePainted == isLooping /\ paints # <<>> /\ totalFrames > 0

\* the frame of the last updateTimelineUI call
PaintedFrame == paints[Len(paints)][1]

\* C19 (as claimed): whenever the timeline of a Loop card has been painted,
\* for whatever frame and loop bounds 0 <= loopStart < loopEnd <= totalFrames,
\* each of the intro, loop and outro widths written is a number from 0% to 100%.
C19_RatiosClamped ==
    LoopTimelinePainted
      => IsRatio(ui.intro) /\ IsRatio(ui.loop) /\ IsRatio(ui.outro)

\* What the code does: the loop width is always a number from 0% to 100%; the
\* intro width is NaN exactly when loopStart = 0 and the frame is 0, and the
\* outro width is NaN exactly when loopEnd = totalFrames and the frame is
\* loopEnd; otherwise they are numbers from 0% to 100%.
C19_RatiosClampedOrNaN ==
    LoopTimelinePainted
      => /\ IsRatio(ui.loop)
         /\ IF loopStartFrame = 0 /\ PaintedFrame = 0
            THEN ui.intro = NaN ELSE IsRatio(ui.intro)
         /\ IF loopEndFrame = totalFrames /\ PaintedFrame = loopEndFrame
            THEN ui.outro = NaN ELSE IsRatio(ui.outro)

\* the frame went beyond loopEnd on a clip that ends after it: the outro fills
C19_Witness ==
    /\ LoopTimelinePainted /\ Handled("FrameAdvanced")
    /\ loopStartFrame > 0 /\ loopEndFrame < totalFrames
    /\ PaintedFrame = totalFrames
    /\ ui.intro = <<100, 1>> /\ ui.loop = <<100, 1>> /\ ui.outro = <<100, 1>>

-----------------------------------------------------------------------------
(* C20 *)

\* the isPlaying argument of the last updateTimelineUI call
PaintedPlaying == paints[Len(paints)][2]

-----------------------------------------------------------------------------
(* C21 *)

\* the last event called updateTimelineUI
TimelinePainted == paints # <<>>

\* the overall progress the renderer has put out: the playhead position, and for
\* a card with the single bar the width of that bar
OverallProgressIs(p) ==
    ui.marker = p /\ (~isLooping => ui.progressFull = p)

C21_NoFrames ==
    /\ TimelinePainted /\ Handled("HoverStart")
    /\ lottieAnimation.loaded /\ totalFrames = 0
    /\ OverallProgressIs(Zero)

-----------------------------------------------------------------------------
(* C22 *)

\* the card is one of a revision whose entries declare loopFrames
DeclaresLoopFrames == rev # "hexagons" /\ CardExists

\* C22: in the revisions whose configuration entries declare loopFrames, the
\* constructed card has (loopStartFrame, loopEndFrame) = (loopFrames[0],
\* loopFrames[1]) if the entry is of kind Loop and has loopFrames, and (0, 0) if
\* the entry is of any other kind (or declares none), whether or not the entry
\* has loopFrames.
C22_SegmentBounds ==
    DeclaresLoopFrames
      => /\ (animationData.animationType = "loop"
               /\ animationData.loopFrames # NoLoopFrames)
              => <<loopStartFrame, loopEndFrame>> = animationData.loopFrames
         /\ animationData.animationType # "loop"
              => <<loopStartFrame, loopEndFrame>> = <<0, 0>>

\* a PlayAndHold entry that has loopFrames: the card's bounds are (0, 0)
C22_Witness ==
    /\ DeclaresLoopFrames /\ lottieAnimation.loaded
    /\ animationData.animationType = "playAndHold"
    /\ animationData.loopFrames # NoLoopFrames
    /\ animationData.loopFrames # <<0, 0>>
    /\ <<loopStartFrame, loopEndFrame>> = <<0, 0>>

\* a Loop entry whose loopFrames are taken as they are
C22_LoopBounds ==
    /\ DeclaresLoopFrames /\ isLooping
    /\ animationData.loopFrames = <<loopStartFrame, loopEndFrame>>
    /\ loopStartFrame > 0 /\ loopEndFrame > loopStartFrame

\* a Loop entry without loopFrames: the card's bounds are (0, 0)
C22_LoopWithoutFrames ==
    /\ DeclaresLoopFrames /\ isLooping
    /\ animationData.loopFrames = NoLoopFrames
    /\ <<loopStartFrame, loopEndFrame>> = <<0, 0>>

-----------------------------------------------------------------------------
(* C23 *)

\* a Loop card whose clip has loaded
LoadedLoopCard == CardExists /\ isLooping /\ lottieAnimation.loaded

\* C23 (as claimed): a card of a Loop clip with malformed bounds is never
\* constructed, so every Loop card that exists has, once its clip has loaded,
\* 0 <= loopStart < loopEnd <= totalFrames.
C23_MalformedBoundsRejected ==
    LoadedLoopCard
      => /\ 0 <= loopStartFrame
         /\ loopStartFrame < loopEndFrame
         /\ loopEndFrame <= totalFrames

\* What the code does: the constructor accepts every entry, so a card exists
\* and loads for whatever the entry holds.
C23_EveryEntryConstructs ==
    [][Construct => CardExists']_vars

\* a Loop card with loopStart >= loopEnd has loaded
C23_MalformedLoaded ==
    /\ LoadedLoopCard /\ rev = "fixed"
    /\ animationData.loopFrames # NoLoopFrames
    /\ loopStartFrame >= loopEndFrame
    /\ totalFrames > 0

-----------------------------------------------------------------------------
(* C24 *)

\* the last event was a hover on a card whose clip the engine had failed to load
HoveredAfterLoadFailure ==
    /\ lottieAnimation.failed
    /\ Handled("HoverStart") \/ Handled("HoverEnd")

\* C24 (as claimed): once the engine has failed to load the card's clip, a
\* HoverStart or HoverEnd issues no engine command and leaves the frame
\* subscriptions as they were.
C24_FailedCardIgnoresHover ==
    HoveredAfterLoadFailure
      => /\ calls = <<>>
         /\ lottieAnimation.enterFrame = last.pre.enterFrame

\* What the code does: the controller keeps no trace of the failure, so a
\* hover is handled as on a card that is still loading.
C24_FailedCardStillHovers ==
    /\ HoveredAfterLoadFailure /\ Handled("HoverStart") /\ rev = "fixed"
    /\ isHovering
    /\ IssuedWith("goToAndPlay", 0) /\ Issued("addEventListener")
    /\ Subscriptions = 1

-----------------------------------------------------------------------------
(* C25 *)

\* the section a card belongs to
SectionOf(slot) == (slot - 1) \div CardsPerSection + 1

\* C25 (as claimed): an error raised by the constructor of one card does not
\* leave the grid assembly, and when the assembly has ended the controller of
\* every card whose own constructor raises no error exists.
C25_FailureIsolated ==
    Assembled
      => /\ ~grid.uncaught
         /\ \A slot \in Slots : slot \notin grid.failing => slot \in grid.constructed

\* What the code does: the first error ends the assembly; the cards before it
\* are constructed and none after it.
C25_AssemblyStopsAtFailure ==
    Assembled
      => /\ grid.uncaught <=> grid.failing # {}
         /\ \A slot \in Slots :
              slot \in grid.constructed
                <=> \A earlier \in 1..slot : earlier \notin grid.failing

\* the constructor of the first card raised an error: neither the next card of
\* its section nor a card of the next section has a controller
C25_LaterCardsMissing ==
    /\ Assembled /\ grid.uncaught
    /\ grid.failing = {1}
    /\ \E slot \in Slots :
         SectionOf(slot) = SectionOf(1) /\ slot > 1 /\ slot \notin grid.constructed
    /\ \E slot \in Slots :
         SectionOf(slot) > SectionOf(1) /\ slot \notin grid.constructed

-----------------------------------------------------------------------------
(* C26 *)

\* the flags, engine handle, subscriptions and timeline of the first card
CardFields ==
    <<totalFrames, isHovering, isOutroLocked, isFrozen, lottieAnimation,
      previous, nextBind, ui>>

-----------------------------------------------------------------------------
(* C27 *)

\* the frame the frame handler reported before the last event
ReportedBefore == last.pre.ui.frameCounter

\* the last event was a frame event that reported a lower frame than the one
\* before it
OutOfOrderFrame == Handled("FrameAdvanced") /\ last.frame < ReportedBefore

\* resetTimeline was called in the last event
TimelineWasReset == \E i \in 1..Len(paints) : paints[i] = <<0, FALSE>>

\* the outro lock was set before the last event and is not set after it
LockCleared == last.pre.isOutroLocked /\ ~isOutroLocked

\* the events that end or restart a session
EndsSession ==
    \/ last.event \in {"PlaybackComplete", "LoadReady"}
    \/ last.event = "HoverEnd" /\ animationType = "playAndHold"

\* C27 (as claimed): the frame handler never unsubscribes, never clears
\* isOutroLocked, never resets the timeline and never seeks to frame 0, whatever
\* frame it is given; unsubscribing, clearing the lock, resetting the timeline
\* and seeking to frame 0 happen only on PlaybackComplete, on LoadReady or on
\* the HoverEnd of a PlayAndHold card.
C27_FrameNeverCompletes ==
    /\ Handled("FrameAdvanced")
         => /\ ~Issued("removeEventListener")
            /\ ~LockCleared
            /\ ~TimelineWasReset
            /\ ~IssuedWith("goToAndPlay", 0) /\ ~IssuedWith("goToAndStop", 0)
    /\ (\/ Issued("removeEventListener")
        \/ LockCleared
        \/ TimelineWasReset
        \/ IssuedWith("goToAndPlay", 0) \/ IssuedWith("goToAndStop", 0))
         => EndsSession

\* What the code does.  The frame handler never unsubscribes, never clears the
\* lock, never resets the timeline and never stops the clip; the one seek it
\* makes is the loop-back seek to loopStart (which is frame 0 for a loop that
\* starts there), made for a hovered, unlocked Loop card at or beyond loopEnd.
\* Unsubscribing, resetting the timeline and stopping at frame 0 happen only
\* on PlaybackComplete, LoadReady or the PlayAndHold HoverEnd; HoverStart too
\* clears the lock and seeks to frame 0.
C27_FrameOnlyLoopsBack ==
    /\ Handled("FrameAdvanced")
         => /\ ~Issued("removeEventListener")
            /\ lottieAnimation.enterFrame = last.pre.enterFrame
            /\ ~LockCleared
            /\ ~TimelineWasReset
            /\ ~Issued("goToAndStop")
            /\ \A i \in 1..Len(calls) :
                 calls[i][1] = "goToAndPlay"
                   => /\ calls[i][2] = loopStartFrame
                      /\ isLooping /\ last.pre.isHovering /\ ~last.pre.isOutroLocked
                      /\ last.frame >= loopEndFrame
    /\ Issued("removeEventListener") => EndsSession /\ last.event # "LoadReady"
    /\ TimelineWasReset => EndsSession
    /\ Issued("goToAndStop") => EndsSession
    /\ LockCleared => last.event \in {"PlaybackComplete", "HoverStart"}
    /\ IssuedWith("goToAndPlay", 0)
         => \/ last.event \in {"PlaybackComplete", "HoverStart"}
            \/ Handled("FrameAdvanced") /\ loopStartFrame = 0

\* after a loop-back seek the engine reported a frame lower than the one before:
\* the handler painted it and the card loops on, subscribed once
C27_Witness ==
    /\ OutOfOrderFrame /\ rev = "fixed" /\ isLooping
    /\ isHovering /\ ~isOutroLocked
    /\ ReportedBefore >= loopEndFrame
    /\ last.frame > loopStartFrame /\ last.frame < loopEndFrame
    /\ calls = <<>> /\ Subscriptions = 1
    /\ paints = <<<<last.frame, TRUE>>>>
    /\ Playing

\* a loop that starts at frame 0: the loop-back seek of the frame handler is a
\* seek to frame 0
C27_LoopBackToZero ==
    /\ Handled("FrameAdvanced") /\ isLooping /\ loopStartFrame = 0
    /\ IssuedWith("goToAndPlay", 0)

-----------------------------------------------------------------------------
(* C28 *)

\* the last event was a HoverStart delivered to a Freeze card that was frozen
HoverStartWhileFrozen ==
    /\ Handled("HoverStart")
    /\ animationType = "freeze"
    /\ last.pre.isFrozen

\* C28 (as claimed): a HoverStart delivered to a frozen Freeze card does not
\* resume or restart playback and does not change the frame: the engine is
\* still paused at the same frame after it, and no play or seek was issued.
C28_FrozenIgnoresHoverStart ==
    HoverStartWhileFrozen
        => /\ lottieAnimation.isPaused
           /\ lottieAnimation.currentFrame = last.pre.currentFrame
           /\ ~Issued("play")
           /\ ~Issued("goToAndPlay")

\* What the code keeps of it: the HoverStart on a frozen card makes no seek, so
\* the frame and the frozen flag are as they were.
C28_FrozenHoverStartKeepsFrame ==
    HoverStartWhileFrozen
        => /\ lottieAnimation.currentFrame = last.pre.currentFrame
           /\ ~Issued("goToAndPlay") /\ ~Issued("goToAndStop")
           /\ isFrozen /\ paints = <<>>

\* the HoverStart on the frozen card issued play(): the engine runs on from the
\* freeze frame with isFrozen still set
C28_FrozenCardResumes ==
    /\ HoverStartWhileFrozen
    /\ last.pre.isPaused
    /\ Issued("play")
    /\ Playing /\ isFrozen /\ isHovering
    /\ lottieAnimation.currentFrame >= freezeFrame

-----------------------------------------------------------------------------
(* C29 *)

\* the last event was a frame event on which the handler made its loop-back seek
LoopBackSeek ==
    /\ Handled("FrameAdvanced")
    /\ IssuedWith("goToAndPlay", loopStartFrame)

\* in a steady hover no completion has been or is about to be reported, the
\* card is hovered and unlocked, and no reported frame lies beyond loopEnd
SteadyLoopSafe ==
    last.steady
        => /\ last.event # "PlaybackComplete"
           /\ ~lottieAnimation.completing
           /\ isHovering /\ ~isOutroLocked
           /\ Playing
           /\ last.event = "FrameAdvanced" => last.frame <= loopEndFrame
           /\ lottieAnimation.currentFrame <= loopEndFrame

\* C29: a Loop card with 0 <= loopStart < loopEnd < totalFrames that is hovered
\* from the stopped state and stays hovered while the engine advances one frame
\* per event never receives PlaybackComplete and never enters the outro: every
\* frame reported is at most loopEnd, isOutroLocked stays false, and if the
\* hover lasts forever the loop-back seek is made infinitely often.
C29_SteadyHoverLoopsForever ==
    /\ []SteadyLoopSafe
    /\ <>[](last.steady) => []<>LoopBackSeek

\* the steady hover has reached loopEnd one frame at a time and loops back
C29_Witness ==
    /\ last.steady /\ rev = "fixed"
    /\ LoopBackSeek
    /\ last.frame = loopEndFrame
    /\ ReportedBefore = loopEndFrame - 1
    /\ lottieAnimation.currentFrame = loopStartFrame
    /\ loopStartFrame > 0 /\ loopEndFrame + 1 < totalFrames
    /\ isHovering /\ ~isOutroLocked /\ Playing

\* every steady hover ends at some time (which a behaviour of the card need not
\* satisfy: a steady hover can last forever)
C29_HoverNeverLasts == []<>(~last.steady)

-----------------------------------------------------------------------------
(* C30 *)

\* a Loop card that is hovered while its outro lock is set
HoveredAndLocked == isLooping /\ isHovering /\ isOutroLocked

\* C30 (as claimed): in every reachable state of a Loop card, if isHovering and
\* isOutroLocked are both true then the current frame is greater than loopEnd.
C30_HoverWithLockIsPastLoopEnd ==
    HoveredAndLocked => lottieAnimation.currentFrame > loopEndFrame

\* What the code keeps: while the handle the lock was set on is still playing,
\* a hovered and locked card is beyond loopEnd.
C30_PlayingHoverWithLockIsPastLoopEnd ==
    HoveredAndLocked /\ Playing => lottieAnimation.currentFrame > loopEndFrame

\* the clip was reloaded while the card was hovered during its outro: the new
\* handle is at frame 0 and both flags are still set
C30_LockSurvivesReload ==
    /\ HoveredAndLocked
    /\ last.event = "ThemeChange"
    /\ last.pre.isHovering /\ last.pre.isOutroLocked
    /\ last.pre.currentFrame > loopEndFrame
    /\ lottieAnimation.currentFrame = 0
    /\ ~lottieAnimation.loaded

\* the re-hover beyond loopEnd: the lock stays and the outro plays on
C30_RehoverPastLoopEnd ==
    /\ HoveredAndLocked /\ Handled("HoverStart")
    /\ last.pre.isOutroLocked /\ ~last.pre.isHovering
    /\ lottieAnimation.currentFrame > loopEndFrame
    /\ Playing

-----------------------------------------------------------------------------
(* C31 *)

\* C31 (as claimed): in every reachable state of a non-continuous card,
\* whenever the current engine handle is playing the frame handler is
\* subscribed on that handle.
C31_PlayingIsSubscribed ==
    ~isContinuous /\ Playing => Subscriptions >= 1

\* after a reload the HoverEnd started the new handle, on which nothing is
\* subscribed, and the engine rendered a frame that no handler saw
C31_FrameUnseen ==
    /\ rev = "fixed" /\ ~isContinuous
    /\ last.event = "FrameAdvanced" /\ last.ran = 0
    /\ Playing /\ Subscriptions = 0
    /\ ~isHovering

\* In the Hexagons revision, which never reloads, a pointer that enters and
\* leaves in turn never lets the engine play without the frame handler.
C31_PlayingIsSubscribed_NoReload ==
    rev = "hexagons" => C31_PlayingIsSubscribed

-----------------------------------------------------------------------------
(* C32 *)

\* C32 (as claimed): in every reachable state isOutroLocked is true only while
\* the current engine handle is playing.
C32_LockOnlyWhilePlaying ==
    isOutroLocked => Playing

\* the clip was reloaded in the middle of an outro: the new handle has loaded
\* and is stopped at frame 0, and the lock of the discarded session is still set
C32_LockOnStoppedReload ==
    /\ isOutroLocked /\ isLooping
    /\ last.event = "LoadReady" /\ last.pre.isOutroLocked
    /\ lottieAnimation.loaded /\ lottieAnimation.isPaused
    /\ lottieAnimation.currentFrame = 0
    /\ previous # NoHandle

\* On a card that has not been reloaded the lock is set only while the engine
\* plays: it is set by a frame event and cleared by PlaybackComplete.
C32_LockOnlyWhilePlaying_NoReload ==
    rev = "hexagons" => C32_LockOnlyWhilePlaying

-----------------------------------------------------------------------------
(* C33 *)

\* the current handle has not delivered LoadReady
NotReady == ~lottieAnimation.loaded

\* C33 (as claimed): totalFrames is 0 whenever the current engine handle has
\* not yet delivered LoadReady, also between a reload and the LoadReady of the
\* new handle.
C33_NoFramesBeforeLoadReady ==
    NotReady => totalFrames = 0

\* between the reload and the LoadReady of the new handle totalFrames is the
\* frame count of the handle that was discarded
C33_StaleFrameCount ==
    /\ NotReady /\ last.event = "ThemeChange"
    /\ previous.held /\ last.pre.loaded
    /\ totalFrames = last.pre.totalFrames
    /\ totalFrames = clipFrames /\ totalFrames > 0
    /\ lottieAnimation.currentFrame = 0

\* What the code keeps: totalFrames is 0 until the first handle of the card has
\* delivered LoadReady, whatever events come before.
C33_NoFramesBeforeFirstLoadReady ==
    NotReady /\ previous = NoHandle => totalFrames = 0

-----------------------------------------------------------------------------
(* C34 *)

\* C34: in every reachable state of a Freeze card whose hover events alternate,
\* isFrozen implies that the card is hovered, the engine is paused and the
\* current frame is at or beyond freezeFrame.
C34_FrozenIsHeld ==
    animationType = "freeze" /\ isFrozen
        => /\ isHovering
           /\ lottieAnimation.isPaused
           /\ lottieAnimation.currentFrame >= freezeFrame

\* a hovered Freeze card has just been frozen by the frame handler, at a frame
\* beyond its freeze frame
C34_Witness ==
    /\ animationType = "freeze" /\ isFrozen
    /\ Handled("FrameAdvanced") /\ ~last.pre.isFrozen
    /\ Issued("pause")
    /\ isHovering /\ lottieAnimation.isPaused
    /\ freezeFrame > 0 /\ lottieAnimation.currentFrame > freezeFrame
    /\ lottieAnimation.currentFrame < totalFrames

-----------------------------------------------------------------------------
(* C35 *)

\* the last event was emitted by a superseded handle
StaleEvent == last.event \in {"StaleLoadReady", "StalePlaybackComplete"}

\* the controller and its current handle are as the last event found them
ControllerUntouched ==
    /\ totalFrames = last.pre.totalFrames
    /\ isHovering = last.pre.isHovering
    /\ isOutroLocked = last.pre.isOutroLocked
    /\ isFrozen = last.pre.isFrozen
    /\ lottieAnimation.isPaused = last.pre.isPaused
    /\ lottieAnimation.loaded = last.pre.loaded
    /\ lottieAnimation.currentFrame = last.pre.currentFrame
    /\ lottieAnimation.enterFrame = last.pre.enterFrame
    /\ ui = last.pre.ui

\* C35: a LoadReady or PlaybackComplete that a superseded handle emits after a
\* reload has created a new handle has no effect on the controller: no handler
\* runs, totalFrames and the flags are unchanged, and no command is issued to
\* the new handle.
C35_StaleEventIgnored ==
    StaleEvent
        => /\ last.ran = 0
           /\ calls = <<>> /\ paints = <<>>
           /\ ControllerUntouched

\* a hovered Loop card was reloaded while it was playing, and the handle it
\* superseded has reported its completion: the new handle is still loading
C35_Witness ==
    /\ rev = "fixed" /\ last.event = "StalePlaybackComplete"
    /\ isLooping /\ isHovering
    /\ previous.held
    /\ ~lottieAnimation.loaded /\ lottieAnimation.isPaused
    /\ Subscriptions = 0
    /\ totalFrames = clipFrames /\ totalFrames > 0

\* a card was reloaded before its first handle had loaded, and that handle has
\* finished loading since
C35_StaleLoadReady ==
    /\ last.event = "StaleLoadReady"
    /\ previous.held /\ ~lottieAnimation.loaded
    /\ totalFrames = 0

-----------------------------------------------------------------------------
(* C36 *)

Full == <<100, 1>>

\* a width above 0%
AboveZero(w) == w[1] > 0

\* a width strictly between 0% and 100%
Partial(w) == w[2] > 0 /\ w[1] > 0 /\ w[1] < 100 * w[2]

Bar(name) ==
    CASE name = "intro" -> ui.intro
      [] name = "loop" -> ui.loop
      [] name = "outro" -> ui.outro

\* the timeline of a loaded Loop card with an intro, a loop and an outro of at
\* least one frame each has been painted for a frame of the clip
ThreeSegmentsPainted ==
    /\ LoopTimelinePainted
    /\ 0 < loopStartFrame /\ loopStartFrame < loopEndFrame
    /\ loopEndFrame < totalFrames
    /\ PaintedFrame \in 0..totalFrames

\* C36: for a Loop timeline with 0 < loopStart < loopEnd < totalFrames and a
\* frame in 0..totalFrames the three bars fill in order: the loop bar is above 0
\* only when the intro bar is full, the outro bar is above 0 only when the loop
\* bar is full, and a bar strictly between 0 and 1 is the bar of the segment
\* the frame lies in, the active one.
C36_BarsFillInOrder ==
    ThreeSegmentsPainted
      => /\ AboveZero(ui.loop) => ui.intro = Full
         /\ AboveZero(ui.outro) => ui.loop = Full
         /\ \A b \in {"intro", "loop", "outro"} :
              Partial(Bar(b))
                => /\ b = ActiveSegment(PaintedFrame)
                   /\ PaintedPlaying => ui.active = {b}
         /\ Cardinality({b \in {"intro", "loop", "outro"} : Partial(Bar(b))}) <= 1

\* a frame in the middle of the loop: the intro bar is full, the loop bar is
\* partly filled and is the active one, the outro bar is empty
C36_Witness ==
    /\ ThreeSegmentsPainted /\ Handled("FrameAdvanced")
    /\ PaintedFrame > loopStartFrame /\ PaintedFrame < loopEndFrame
    /\ ui.intro = Full /\ Partial(ui.loop) /\ ui.outro = Zero
    /\ ui.active = {"loop"}

\* the frame is exactly loopEnd: intro and loop are full, the outro is empty
C36_AtLoopEnd ==
    /\ ThreeSegmentsPainted /\ PaintedFrame = loopEndFrame
    /\ ui.intro = Full /\ ui.loop = Full /\ ui.outro = Zero

-----------------------------------------------------------------------------
(* C37 *)

\* C37 (as claimed): for every configuration entry, the timeline type the grid
\* assembler sets on a card is 'loop' exactly when the card's controller has
\* animationType 'loop', in each revision.
C37_TimelineMatchesKind ==
    CardExists
        => (timelineType(animationData) = "loop" <=> animationType = "loop")

\* an entry of the hexagons revision that declares a kind other than continuous
\* for a file whose name includes 'loop': the card is given the loop timeline
\* and its controller is not a Loop controller
C37_LoopTimelineOnOtherKind ==
    /\ CardExists /\ rev = "hexagons"
    /\ animationData.animationType = "playOnce" /\ animationData.fileName.loop
    /\ timelineType(animationData) = "loop"
    /\ animationType = "playOnce" /\ ~isLooping

\* For the entries the revisions ship (the hexagons revision declares only the
\* continuous kind), and for every entry of the second and fixed revisions, the
\* two agree.
C37_TimelineMatchesKind_Shipped ==
    CardExists /\ (rev # "hexagons" \/ animationData \in Entries(rev))
        => (timelineType(animationData) = "loop" <=> animationType = "loop")

\* a card of the hexagons revision whose kind is told by its file name
C37_LoopByName ==
    /\ CardExists /\ rev = "hexagons"
    /\ animationData.animationType = "" /\ animationData.fileName.loop
    /\ timelineType(animationData) = "loop" /\ animationType = "loop"

====
